---- MODULE Spec2Model ----
(***************************************************************************)
(* LibUTF, utf_std.cpp: the strict encode and decode primitives, the       *)
(* cursor operations of the IUTF handlers that are built on them,          *)
(* identifyUTF, and the counting and sizing functions.                     *)
(*                                                                         *)
(* unicode_t is int32_t (docs/utf/std_overview.md:54), so a scalar is a    *)
(* two's-complement 32-bit integer in -2^31 .. 2^31-1; a sentinel          *)
(* 0x800000XX is the negative integer INT32_MIN + XX.  A byte buffer is a  *)
(* sequence of bytes, C index i being element i+1, and the null pointer is *)
(* the empty sequence.  A 32-bit constant 0xHHHHLLLL of the source is      *)
(* written W(\hHHHH, \hLLLL).                                              *)
(***************************************************************************)
EXTENDS Integers, Sequences, FiniteSets, TLC

\* ---- 32-bit machine arithmetic ------------------------------------------

INT32_MIN == -2147483647 - 1

\* the int32 with the bit pattern 0xHHHHLLLL
W(hi, lo) == (IF hi >= 32768 THEN hi - 65536 ELSE hi) * 65536 + lo

Pow2(n) == 2 ^ n

\* bitwise and / or of two's-complement integers
RECURSIVE And(_, _)
And(a, b) ==
    IF a = 0 \/ b = 0 THEN 0
    ELSE IF a = -1 THEN b
    ELSE IF b = -1 THEN a
    ELSE (a % 2) * (b % 2) + 2 * And(a \div 2, b \div 2)

RECURSIVE Or(_, _)
Or(a, b) ==
    IF a = 0 THEN b
    ELSE IF b = 0 THEN a
    ELSE IF a = -1 \/ b = -1 THEN -1
    ELSE (IF a % 2 = 1 \/ b % 2 = 1 THEN 1 ELSE 0) + 2 * Or(a \div 2, b \div 2)

\* x >> n on int32 (sign-propagating for a negative x)
Shr(x, n) == x \div Pow2(n)

\* x << n on int32, the bits shifted past bit 31 are lost
Shl(x, n) ==
    LET low == x % Pow2(32 - n)
    IN  IF low >= Pow2(31 - n) THEN (low - Pow2(32 - n)) * Pow2(n) ELSE low * Pow2(n)

\* static_cast<uint8_t>(x)
U8(x) == x % 256

nullptr == <<>>

\* buffer[i]
At(buffer, i) == buffer[i + 1]

\* buffer[i] = v
Store(buffer, i, v) == [buffer EXCEPT ![i + 1] = v]

\* ---- conditions shared by the primitives -------------------------------

\* slip: only the top bit is tested, so a lead byte passes for a continuation byte
isContinuation_topBit(byte) == And(byte, \h80) = \h80

\* (byte & 0xc0u) == 0x80u
isContinuation(byte) == And(byte, \hc0) = \h80

\* slip: the high-surrogate mask is used, so 0xDC00 .. 0xDFFF pass as scalars
isSurrogate_highOnly(value) == And(value, W(\hffff, \hfc00)) = \hd800

\* (value & 0xfffff800u) == 0x0000d800u
isSurrogate(value) == And(value, W(\hffff, \hf800)) = \hd800

\* slip: the comparison is signed, so a negative scalar is in range
inUnicodeRange_signed(unicode) == unicode <= \h10ffff

\* static_cast<uint32_t>(unicode) <= 0x0010ffffu
inUnicodeRange(unicode) == unicode >= 0 /\ unicode <= \h10ffff

\* slip: the size test is off by one
hasBytes_offByOne(size, n) == size >= n - 1

\* slip: only the lead byte's presence is tested
hasBytes_leadOnly(size, n) == size >= 1

\* the size test that guards an access to buffer[0 .. n-1]
hasBytes(size, n) == size >= n

\* slip: the sentinel bit is not set
badUTF8_noFlag(unicode) == unicode

\* unicode |= 0x80000000u
badUTF8(unicode) == Or(unicode, INT32_MIN)

\* unicode = 0x80000000u
badUTF16 == INT32_MIN

badUTF32 == INT32_MIN

\* the out-parameters and return value of a decode, with the buffer indices read
Decoded(ok, unicode, bytes, reads) ==
    [ok |-> ok, unicode |-> unicode, bytes |-> bytes, reads |-> reads]

\* the out-parameter, return value and memory of an encode, with the indices written
Encoded(ok, bytes, buffer, writes) ==
    [ok |-> ok, bytes |-> bytes, buffer |-> buffer, writes |-> writes]

\* ---- UTF-8 ---------------------------------------------------------------

\* slip: bytes = 1 is set on the 1-byte success only, a failure leaves bytes = 0
failUTF8_zeroBytes(unicode, reads) == Decoded(FALSE, badUTF8(unicode), 0, reads)

\* the one failure exit of getUTF8: bytes is still the 1 set beside unicode = byte,
\* the lead byte in unicode gets the sentinel bit, and false is returned
failUTF8(unicode, reads) == Decoded(FALSE, badUTF8(unicode), 1, reads)

getUTF8(buffer, size, use_java) ==
    IF buffer # nullptr /\ hasBytes(size, 1)
    THEN LET byte == At(buffer, 0)
             unicode == byte
         IN  IF U8(byte + 8) <= \hc7
             THEN IF byte <= \h7f
                  THEN Decoded(TRUE, unicode, 1, {0})
                  ELSE failUTF8(unicode, {0})
             ELSE IF byte <= \hdf
             THEN IF hasBytes(size, 2)
                  THEN LET b1 == At(buffer, 1)
                           value == Shl(And(unicode, \h1f), 6) + And(b1, \h3f)
                       IN  IF isContinuation(b1)
                              /\ (value >= \h80 \/ (use_java /\ value = 0))
                           THEN Decoded(TRUE, value, 2, {0, 1})
                           ELSE failUTF8(unicode, {0, 1})
                  ELSE failUTF8(unicode, {0})
             ELSE IF byte <= \hef
             THEN IF hasBytes(size, 3)
                  THEN LET b1 == At(buffer, 1)
                           b2 == At(buffer, 2)
                           v1 == Shl(And(unicode, \h0f), 6) + And(b1, \h3f)
                           value == Shl(v1, 6) + And(b2, \h3f)
                       IN  IF ~isContinuation(b1)
                           THEN failUTF8(unicode, {0, 1})
                           ELSE IF isContinuation(b2)
                                   /\ value >= \h800 /\ ~isSurrogate(value)
                           THEN Decoded(TRUE, value, 3, {0, 1, 2})
                           ELSE failUTF8(unicode, {0, 1, 2})
                  ELSE failUTF8(unicode, {0})
             ELSE IF hasBytes(size, 4)
                  THEN LET b1 == At(buffer, 1)
                           b2 == At(buffer, 2)
                           b3 == At(buffer, 3)
                           v1 == Shl(And(unicode, \h07), 6) + And(b1, \h3f)
                           v2 == Shl(v1, 6) + And(b2, \h3f)
                           value == Shl(v2, 6) + And(b3, \h3f)
                       IN  IF ~isContinuation(b1)
                           THEN failUTF8(unicode, {0, 1})
                           ELSE IF ~isContinuation(b2)
                           THEN failUTF8(unicode, {0, 1, 2})
                           ELSE IF isContinuation(b3)
                                   /\ value >= W(\h0001, \h0000) /\ value <= \h10ffff
                           THEN Decoded(TRUE, value, 4, {0, 1, 2, 3})
                           ELSE failUTF8(unicode, {0, 1, 2, 3})
                  ELSE failUTF8(unicode, {0})
    ELSE Decoded(FALSE, 0, 0, {})

setUTF8(buffer, size, unicode, use_java) ==
    IF buffer # nullptr /\ hasBytes(size, 1) /\ inUnicodeRange(unicode)
    THEN IF unicode <= \h7f
         THEN IF use_java /\ unicode = 0
              THEN IF hasBytes(size, 2)
                   THEN Encoded(TRUE, 2, Store(Store(buffer, 0, \hc0), 1, \h80), {0, 1})
                   ELSE Encoded(FALSE, 0, buffer, {})
              ELSE IF hasBytes(size, 1)
                   THEN Encoded(TRUE, 1, Store(buffer, 0, U8(unicode)), {0})
                   ELSE Encoded(FALSE, 0, buffer, {})
         ELSE IF unicode <= \h7ff
         THEN IF hasBytes(size, 2)
              THEN LET m0 == Store(buffer, 0, Or(U8(Shr(unicode, 6)), \hc0))
                       m1 == Store(m0, 1, Or(And(U8(unicode), \h3f), \h80))
                   IN  Encoded(TRUE, 2, m1, {0, 1})
              ELSE Encoded(FALSE, 0, buffer, {})
         ELSE IF unicode <= \hffff
         THEN IF hasBytes(size, 3) /\ ~isSurrogate(unicode)
              THEN LET m0 == Store(buffer, 0, Or(U8(Shr(unicode, 12)), \he0))
                       m1 == Store(m0, 1, Or(And(U8(Shr(unicode, 6)), \h3f), \h80))
                       m2 == Store(m1, 2, Or(And(U8(unicode), \h3f), \h80))
                   IN  Encoded(TRUE, 3, m2, {0, 1, 2})
              ELSE Encoded(FALSE, 0, buffer, {})
         ELSE IF hasBytes(size, 4)
              THEN LET m0 == Store(buffer, 0, Or(U8(Shr(unicode, 18)), \hf0))
                       m1 == Store(m0, 1, Or(And(U8(Shr(unicode, 12)), \h3f), \h80))
                       m2 == Store(m1, 2, Or(And(U8(Shr(unicode, 6)), \h3f), \h80))
                       m3 == Store(m2, 3, Or(And(U8(unicode), \h3f), \h80))
                   IN  Encoded(TRUE, 4, m3, {0, 1, 2, 3})
              ELSE Encoded(FALSE, 0, buffer, {})
    ELSE Encoded(FALSE, 0, buffer, {})

\* ---- UTF-16 --------------------------------------------------------------

\* (value & 0xfffffc00u) == 0x0000d800u
isHighSurrogate(value) == And(value, W(\hffff, \hfc00)) = \hd800

\* slip: the mask of isSurrogate is used, so a second high surrogate passes
isLowSurrogate_anySurrogate(extra) == And(extra, W(\hffff, \hf800)) = \hd800

\* (extra & 0xfffffc00u) == 0x0000dc00u
isLowSurrogate(extra) == And(extra, W(\hffff, \hfc00)) = \hdc00

\* ((value & 0x000003ffu) << 10) + (extra & 0x000003ffu) + 0x00010000u
joinSurrogates(value, extra) ==
    Shl(And(value, \h3ff), 10) + And(extra, \h3ff) + W(\h0001, \h0000)

\* slip: 0x10000 is not subtracted before the split
splitSurrogates_noBias(unicode) ==
    Or(And(Or(Shr(unicode, 10), Shl(unicode, 16)), W(\h03ff, \h03ff)), W(\hdc00, \hd800))

\* slip: the two halves of the or-mask are exchanged, so the low surrogate is
\* written first
splitSurrogates_swapped(unicode) ==
    Or(And(Or(Shr(unicode - W(\h0001, \h0000), 10), Shl(unicode - W(\h0001, \h0000), 16)),
           W(\h03ff, \h03ff)),
       W(\hd800, \hdc00))

\* surrogate = (unicode - 0x00010000u);
\* surrogate = ((((surrogate >> 10) | (surrogate << 16)) & 0x03ff03ffu) | 0xdc00d800u);
\* the low half is the high surrogate, the high half the low surrogate
\* (surrogate << 16 drops the bits above bit 31: that is what C++20 defines and
\* what a 32-bit shift instruction does under the earlier standards)
splitSurrogates(unicode) ==
    LET surrogate == unicode - W(\h0001, \h0000)
    IN  Or(And(Or(Shr(surrogate, 10), Shl(surrogate, 16)), W(\h03ff, \h03ff)),
           W(\hdc00, \hd800))

getUTF16le(buffer, size) ==
    IF buffer # nullptr /\ hasBytes(size, 2)
    THEN LET value == Shl(At(buffer, 1), 8) + At(buffer, 0)
         IN  IF ~isSurrogate(value)
             THEN Decoded(TRUE, value, 2, {0, 1})
             ELSE IF hasBytes(size, 4) /\ isHighSurrogate(value)
             THEN LET extra == Shl(At(buffer, 3), 8) + At(buffer, 2)
                  IN  IF isLowSurrogate(extra)
                      THEN Decoded(TRUE, joinSurrogates(value, extra), 4, {0, 1, 2, 3})
                      ELSE Decoded(FALSE, badUTF16, 2, {0, 1, 2, 3})
             ELSE Decoded(FALSE, badUTF16, 2, {0, 1})
    ELSE Decoded(FALSE, 0, 0, {})

setUTF16le(buffer, size, unicode) ==
    IF buffer # nullptr /\ hasBytes(size, 2) /\ inUnicodeRange(unicode)
       /\ ~isSurrogate(unicode)
    THEN IF unicode <= \hffff
         THEN LET m0 == Store(buffer, 0, U8(unicode))
                  m1 == Store(m0, 1, U8(Shr(unicode, 8)))
              IN  Encoded(TRUE, 2, m1, {0, 1})
         ELSE IF hasBytes(size, 4)
         THEN LET surrogate == splitSurrogates(unicode)
                  m0 == Store(buffer, 0, U8(surrogate))
                  m1 == Store(m0, 1, U8(Shr(surrogate, 8)))
                  m2 == Store(m1, 2, U8(Shr(surrogate, 16)))
                  m3 == Store(m2, 3, U8(Shr(surrogate, 24)))
              IN  Encoded(TRUE, 4, m3, {0, 1, 2, 3})
         ELSE Encoded(FALSE, 0, buffer, {})
    ELSE Encoded(FALSE, 0, buffer, {})

getUTF16be(buffer, size) ==
    IF buffer # nullptr /\ hasBytes(size, 2)
    THEN LET value == Shl(At(buffer, 0), 8) + At(buffer, 1)
         IN  IF ~isSurrogate(value)
             THEN Decoded(TRUE, value, 2, {0, 1})
             ELSE IF hasBytes(size, 4) /\ isHighSurrogate(value)
             THEN LET extra == Shl(At(buffer, 2), 8) + At(buffer, 3)
                  IN  IF isLowSurrogate(extra)
                      THEN Decoded(TRUE, joinSurrogates(value, extra), 4, {0, 1, 2, 3})
                      ELSE Decoded(FALSE, badUTF16, 2, {0, 1, 2, 3})
             ELSE Decoded(FALSE, badUTF16, 2, {0, 1})
    ELSE Decoded(FALSE, 0, 0, {})

setUTF16be(buffer, size, unicode) ==
    IF buffer # nullptr /\ hasBytes(size, 2) /\ inUnicodeRange(unicode)
       /\ ~isSurrogate(unicode)
    THEN IF unicode <= \hffff
         THEN LET m0 == Store(buffer, 0, U8(Shr(unicode, 8)))
                  m1 == Store(m0, 1, U8(unicode))
              IN  Encoded(TRUE, 2, m1, {0, 1})
         ELSE IF hasBytes(size, 4)
         THEN LET surrogate == splitSurrogates(unicode)
                  m0 == Store(buffer, 0, U8(Shr(surrogate, 8)))
                  m1 == Store(m0, 1, U8(surrogate))
                  m2 == Store(m1, 2, U8(Shr(surrogate, 24)))
                  m3 == Store(m2, 3, U8(Shr(surrogate, 16)))
              IN  Encoded(TRUE, 4, m3, {0, 1, 2, 3})
         ELSE Encoded(FALSE, 0, buffer, {})
    ELSE Encoded(FALSE, 0, buffer, {})

\* ---- UTF-32 --------------------------------------------------------------

\* ((((((b3 << 8) + b2) << 8) + b1) << 8) + b0) on int32
word32(b3, b2, b1, b0) == Shl(Shl(Shl(b3, 8) + b2, 8) + b1, 8) + b0

\* slip: bytes = 4 is set on success only, a failure leaves bytes = 0
getUTF32le_lateBytes(buffer, size) ==
    IF buffer # nullptr /\ hasBytes(size, 4)
    THEN LET value == word32(At(buffer, 3), At(buffer, 2), At(buffer, 1), At(buffer, 0))
         IN  IF inUnicodeRange(value) /\ ~isSurrogate(value)
             THEN Decoded(TRUE, value, 4, {0, 1, 2, 3})
             ELSE Decoded(FALSE, badUTF32, 0, {0, 1, 2, 3})
    ELSE Decoded(FALSE, 0, 0, {})

getUTF32le(buffer, size) ==
    IF buffer # nullptr /\ hasBytes(size, 4)
    THEN LET value == word32(At(buffer, 3), At(buffer, 2), At(buffer, 1), At(buffer, 0))
         IN  IF inUnicodeRange(value) /\ ~isSurrogate(value)
             THEN Decoded(TRUE, value, 4, {0, 1, 2, 3})
             ELSE Decoded(FALSE, badUTF32, 4, {0, 1, 2, 3})
    ELSE Decoded(FALSE, 0, 0, {})

getUTF32be(buffer, size) ==
    IF buffer # nullptr /\ hasBytes(size, 4)
    THEN LET value == word32(At(buffer, 0), At(buffer, 1), At(buffer, 2), At(buffer, 3))
         IN  IF inUnicodeRange(value) /\ ~isSurrogate(value)
             THEN Decoded(TRUE, value, 4, {0, 1, 2, 3})
             ELSE Decoded(FALSE, badUTF32, 4, {0, 1, 2, 3})
    ELSE Decoded(FALSE, 0, 0, {})

setUTF32le(buffer, size, unicode) ==
    IF buffer # nullptr /\ hasBytes(size, 4) /\ inUnicodeRange(unicode)
       /\ ~isSurrogate(unicode)
    THEN LET m0 == Store(buffer, 0, U8(unicode))
             m1 == Store(m0, 1, U8(Shr(unicode, 8)))
             m2 == Store(m1, 2, U8(Shr(unicode, 16)))
             m3 == Store(m2, 3, U8(Shr(unicode, 24)))
         IN  Encoded(TRUE, 4, m3, {0, 1, 2, 3})
    ELSE Encoded(FALSE, 0, buffer, {})

setUTF32be(buffer, size, unicode) ==
    IF buffer # nullptr /\ hasBytes(size, 4) /\ inUnicodeRange(unicode)
       /\ ~isSurrogate(unicode)
    THEN LET m0 == Store(buffer, 0, U8(Shr(unicode, 24)))
             m1 == Store(m0, 1, U8(Shr(unicode, 16)))
             m2 == Store(m1, 2, U8(Shr(unicode, 8)))
             m3 == Store(m2, 3, U8(unicode))
         IN  Encoded(TRUE, 4, m3, {0, 1, 2, 3})
    ELSE Encoded(FALSE, 0, buffer, {})

\* ---- single-byte forms ---------------------------------------------------

\* slip: the byte is not added to the sentinel
badBYTE_noByte(byte) == INT32_MIN

\* unicode = (0x80000000u + byte)
badBYTE(byte) == INT32_MIN + byte

getBYTE(buffer, size, use_ascii) ==
    IF buffer # nullptr /\ hasBytes(size, 1)
    THEN LET byte == At(buffer, 0)
         IN  IF ~use_ascii \/ byte <= \h7f
             THEN Decoded(TRUE, byte, 1, {0})
             ELSE Decoded(FALSE, badBYTE(byte), 1, {0})
    ELSE Decoded(FALSE, 0, 0, {})

setBYTE(buffer, size, unicode, use_ascii) ==
    IF buffer # nullptr /\ hasBytes(size, 1)
       /\ unicode >= 0 /\ unicode <= (IF use_ascii THEN \h7f ELSE \hff)
    THEN Encoded(TRUE, 1, Store(buffer, 0, U8(unicode)), {0})
    ELSE Encoded(FALSE, 0, buffer, {})

\* unicode_utilities: the bytes Windows-1252 leaves undefined
CP1252Undefined == {\h81, \h8d, \h8f, \h90, \h9d}

\* unicode_utilities: the scalars of the bytes 0x80 .. 0x9f (0 where undefined)
CP1252High ==
    << \h20ac, 0, \h201a, \h0192, \h201e, \h2026, \h2020, \h2021,
       \h02c6, \h2030, \h0160, \h2039, \h0152, 0, \h017d, 0,
       0, \h2018, \h2019, \h201c, \h201d, \h2022, \h2013, \h2014,
       \h02dc, \h2122, \h0161, \h203a, \h0153, 0, \h017e, \h0178 >>

\* cp1252ToUnicode(cp1252, unicode, CP1252Strictness::StrictUndefined)
cp1252ToUnicode(cp1252) ==
    IF cp1252 \in CP1252Undefined THEN [ok |-> FALSE, unicode |-> 0]
    ELSE IF cp1252 >= \h80 /\ cp1252 <= \h9f
    THEN [ok |-> TRUE, unicode |-> CP1252High[cp1252 - \h80 + 1]]
    ELSE [ok |-> TRUE, unicode |-> cp1252]

\* unicodeToCP1252(unicode, cp1252, CP1252Strictness::StrictUndefined): the byte
\* that cp1252ToUnicode maps to unicode, when there is one
unicodeToCP1252(unicode) ==
    LET from == {b \in 0 .. 255 : cp1252ToUnicode(b).ok /\ cp1252ToUnicode(b).unicode = unicode}
    IN  IF from = {} THEN [ok |-> FALSE, cp1252 |-> 0]
        ELSE [ok |-> TRUE, cp1252 |-> CHOOSE b \in from : TRUE]

getCP1252(buffer, size) ==
    IF buffer # nullptr /\ hasBytes(size, 1)
    THEN LET cp1252 == At(buffer, 0)
             got == cp1252ToUnicode(cp1252)
         IN  IF got.ok
             THEN Decoded(TRUE, got.unicode, 1, {0})
             ELSE Decoded(FALSE, badBYTE(cp1252), 1, {0})
    ELSE Decoded(FALSE, 0, 0, {})

setCP1252(buffer, size, unicode) ==
    IF buffer # nullptr /\ hasBytes(size, 1) /\ unicode >= 0 /\ unicode <= \hff
    THEN LET got == unicodeToCP1252(unicode)
         IN  IF got.ok
             THEN Encoded(TRUE, 1, Store(buffer, 0, got.cp1252), {0})
             ELSE Encoded(FALSE, 0, buffer, {})
    ELSE Encoded(FALSE, 0, buffer, {})

\* lenCP1252(unicode): 1 when the table has a byte for unicode, else 0
lenCP1252(unicode) == IF unicodeToCP1252(unicode).ok THEN 1 ELSE 0

\* ---- the handlers and the cursor wrappers of IUTF ----------------------
\*
\* A pointer is an address: address a >= 1 is byte a of the memory (a sequence),
\* address 0 is the null pointer, and &p[i] is p + i.  A utf_text is the record
\* [buffer, length, offset] of a pointer and two uint32_t; the lengths explored
\* stay far below 2^32, so offset += bytes never wraps.

\* a ^ b on two's-complement integers
Xor(a, b) == Or(a, b) - And(a, b)

\* what a primitive is handed for the pointer p: the bytes from p on
Deref(memory, p) == IF p = 0 THEN nullptr ELSE SubSeq(memory, p, Len(memory))

utf_text(buffer, length, offset) == [buffer |-> buffer, length |-> length, offset |-> offset]

Handlers == {"CUTF8", "CJUTF8", "CUTF16le", "CUTF16be", "CUTF32le", "CUTF32be",
             "CBYTE", "CASCII", "CCP1252"}

\* the virtual unitSize() of each handler class
unitSize(handler) ==
    CASE handler \in {"CUTF16le", "CUTF16be"} -> 2
      [] handler \in {"CUTF32le", "CUTF32be"} -> 4
      [] OTHER -> 1

\* the virtual get(buffer, size, unicode, bytes) of each handler class
get(handler, buffer, size) ==
    CASE handler = "CUTF8" -> getUTF8(buffer, size, FALSE)
      [] handler = "CJUTF8" -> getUTF8(buffer, size, TRUE)
      [] handler = "CUTF16le" -> getUTF16le(buffer, size)
      [] handler = "CUTF16be" -> getUTF16be(buffer, size)
      [] handler = "CUTF32le" -> getUTF32le(buffer, size)
      [] handler = "CUTF32be" -> getUTF32be(buffer, size)
      [] handler = "CBYTE" -> getBYTE(buffer, size, FALSE)
      [] handler = "CASCII" -> getBYTE(buffer, size, TRUE)
      [] handler = "CCP1252" -> getCP1252(buffer, size)

\* the virtual set(buffer, size, unicode, bytes) of each handler class
set(handler, buffer, size, unicode) ==
    CASE handler = "CUTF8" -> setUTF8(buffer, size, unicode, FALSE)
      [] handler = "CJUTF8" -> setUTF8(buffer, size, unicode, TRUE)
      [] handler = "CUTF16le" -> setUTF16le(buffer, size, unicode)
      [] handler = "CUTF16be" -> setUTF16be(buffer, size, unicode)
      [] handler = "CUTF32le" -> setUTF32le(buffer, size, unicode)
      [] handler = "CUTF32be" -> setUTF32be(buffer, size, unicode)
      [] handler = "CBYTE" -> setBYTE(buffer, size, unicode, FALSE)
      [] handler = "CASCII" -> setBYTE(buffer, size, unicode, TRUE)
      [] handler = "CCP1252" -> setCP1252(buffer, size, unicode)

\* slip: the whole length is passed as the size, whatever the offset
IUTF_get_fullLength(handler, memory, text) ==
    IF text.length >= text.offset
    THEN get(handler, Deref(memory, text.buffer + text.offset), text.length)
    ELSE Decoded(FALSE, 0, 0, {})

\* IUTF::get(text, unicode, bytes)
IUTF_get(handler, memory, text) ==
    IF text.length >= text.offset
    THEN get(handler, Deref(memory, text.buffer + text.offset), text.length - text.offset)
    ELSE Decoded(FALSE, 0, 0, {})

\* the return value and bytes of a cursor encode, with the memory it leaves
Written(ok, bytes, memory) == [ok |-> ok, bytes |-> bytes, memory |-> memory]

\* the memory after the encode: the bytes before p, then what the encoder left
setReturn(e, memory, p) ==
    Written(e.ok, e.bytes, IF p = 0 THEN memory ELSE SubSeq(memory, 1, p - 1) \o e.buffer)

\* IUTF::set(text, unicode, bytes)
IUTF_set(handler, memory, text, unicode) ==
    IF text.length >= text.offset
    THEN setReturn(set(handler, Deref(memory, text.buffer + text.offset),
                       text.length - text.offset, unicode),
                   memory, IF text.buffer = 0 THEN 0 ELSE text.buffer + text.offset)
    ELSE Written(FALSE, 0, memory)

\* text.offset += bytes
Advance(text, bytes) == [text EXCEPT !.offset = @ + bytes]

\* the return value and out-parameter of a cursor read, with the cursor it leaves
\* and its local variable bytes
Read(ok, unicode, text, bytes) ==
    [ok |-> ok, unicode |-> unicode, text |-> text, bytes |-> bytes]

\* slip: the cursor moves only when the decode succeeded
readReturn_successOnly(got, text) ==
    Read(got.ok, got.unicode, IF got.ok THEN Advance(text, got.bytes) ELSE text, got.bytes)

\* the two statements of IUTF::read and IUTF::readNLF after the decode returned got
readReturn(got, text) == Read(got.ok, got.unicode, Advance(text, got.bytes), got.bytes)

\* IUTF::read(text, unicode)
read(handler, memory, text) == readReturn(IUTF_get(handler, memory, text), text)

\* slip: the cursor does not move
writeReturn_noAdvance(put, text) ==
    [ok |-> put.ok, text |-> text, memory |-> put.memory, bytes |-> put.bytes]

\* the two statements of IUTF::write after the encode returned put
writeReturn(put, text) ==
    [ok |-> put.ok, text |-> Advance(text, put.bytes), memory |-> put.memory,
     bytes |-> put.bytes]

\* IUTF::write(text, unicode)
write(handler, memory, text, unicode) ==
    writeReturn(IUTF_set(handler, memory, text, unicode), text)

RECURSIVE validateScan(_, _, _)

\* the body of the while loop of IUTF::validate, read having returned got
validateStep(got, handler, memory) ==
    IF ~got.ok THEN FALSE ELSE validateScan(handler, memory, got.text)

\* the while loop of IUTF::validate
validateScan(handler, memory, scan) ==
    IF scan.offset < scan.length
    THEN validateStep(read(handler, memory, scan), handler, memory)
    ELSE TRUE

\* IUTF::validate(text)
validate(handler, memory, text) ==
    IF text.buffer = 0 \/ text.offset < text.length
    THEN FALSE
    ELSE validateScan(handler, memory, text)

\* the return value and out-parameters of getNLF
NLF(ok, unicode, bytes) == [ok |-> ok, unicode |-> unicode, bytes |-> bytes]

\* slip: any CR or LF after a CR or LF is taken for the second half of a pair
isPairing_either(unicode, pairing) == pairing \in {\h0a, \h0d}

\* static_cast<uint32_t>(unicode) == (pairing ^ 0x0007u)
isPairing(unicode, pairing) == unicode = Xor(pairing, \h07)

\* bytes after the pairing test, the decode at next having returned paired
pairBytes(unicode, bytes, paired) ==
    IF paired.ok /\ isPairing(unicode, paired.unicode) THEN bytes + paired.bytes ELSE bytes

\* the switch of IUTF::getNLF, the decode at text having returned got
switchNLF(got, handler, memory, text) ==
    IF got.ok
    THEN CASE got.unicode \in {\h0a, \h0d} ->
                  NLF(TRUE, \h0a,
                      pairBytes(got.unicode, got.bytes,
                                IUTF_get(handler, memory, Advance(text, got.bytes))))
           [] got.unicode \in {\h0b, \h0c, \h85, \h2028, \h2029} ->
                  NLF(TRUE, \h0a, got.bytes)
           [] OTHER -> NLF(TRUE, got.unicode, got.bytes)
    ELSE NLF(FALSE, got.unicode, got.bytes)

\* IUTF::getNLF(text, unicode, bytes)
getNLF(handler, memory, text) ==
    switchNLF(IUTF_get(handler, memory, text), handler, memory, text)

\* IUTF::readNLF(text, unicode)
readNLF(handler, memory, text) == readReturn(getNLF(handler, memory, text), text)

\* the return value and out-parameters of getLine
Line(ok, line, bytes) == [ok |-> ok, line |-> line, bytes |-> bytes]

\* slip: the scalar 0 does not end a line
endsLine_newlineOnly(unicode) == unicode = \h0a

\* (unicode == 0x000au) || (unicode == 0x0000u)
endsLine(unicode) == unicode = \h0a \/ unicode = \h00

RECURSIVE getLineScan(_, _, _)

\* the body and the exit of the while loop of IUTF::getLine, getNLF having
\* returned got
getLineStep(got, handler, memory, scan) ==
    IF got.ok
    THEN IF endsLine(got.unicode)
         THEN Line(TRUE, utf_text(scan.buffer, scan.offset, 0), got.bytes + scan.offset)
         ELSE getLineScan(handler, memory, Advance(scan, got.bytes))
    ELSE Line(FALSE, utf_text(0, 0, 0), got.bytes)

\* the while loop of IUTF::getLine
getLineScan(handler, memory, scan) ==
    getLineStep(getNLF(handler, memory, scan), handler, memory, scan)

\* IUTF::getLine(text, line, bytes)
getLine(handler, memory, text) ==
    IF text.buffer # 0 /\ text.offset <= text.length
    THEN getLineScan(handler, memory,
                     utf_text(text.buffer + text.offset, text.length - text.offset, 0))
    ELSE Line(FALSE, utf_text(0, 0, 0), 0)

\* the two statements of IUTF::readLine after getLine returned got
readLineReturn(got, text) ==
    [ok |-> got.ok, line |-> got.line, text |-> Advance(text, got.bytes),
     bytes |-> got.bytes]

\* IUTF::readLine(text, line)
readLine(handler, memory, text) == readLineReturn(getLine(handler, memory, text), text)

\* ---- the counting and the sizing loops -------------------------------------
\*
\* One step is one evaluation of a loop's condition and, when it holds, one run of
\* its body.  The record of a loop holds the locals index, limit, count, unicode and
\* bytes, the number of times the body was entered (iterations), the buffer indices
\* read so far (reads) and done, set when the loop is left.  The sum needs of the
\* sizing functions is written and never read by the loop, so it is left out, and
\* with it lenUTF8 and lenUTF16.  &buffer[index] is the buffer from index on.

\* the locals when the loop is reached
Locals(limit, unicode) ==
    [index |-> 0, limit |-> limit, count |-> 0, unicode |-> unicode, bytes |-> 0,
     iterations |-> 0, done |-> FALSE, reads |-> {}]

\* the condition failed, a break was taken or the buffer is null
Left(locals, seen) == [locals EXCEPT !.done = TRUE, !.reads = @ \cup seen]

\* strlenUTF8(buffer): for (index = 0; (byte = buffer[index]) != 0; ++index)
strlenUTF8(buffer, locals) ==
    IF buffer = nullptr THEN Left(locals, {})
    ELSE IF At(buffer, locals.index) # 0
    THEN [locals EXCEPT !.count = IF isContinuation(At(buffer, locals.index)) THEN @ ELSE @ + 1,
                        !.index = @ + 1,
                        !.iterations = @ + 1,
                        !.reads = @ \cup {locals.index}]
    ELSE Left(locals, {locals.index})

\* strlenUTF8(buffer, size): for (limit = size; limit; --limit)
strlenUTF8Sized(buffer, locals) ==
    IF buffer = nullptr THEN Left(locals, {})
    ELSE IF locals.limit # 0
    THEN [locals EXCEPT !.count = IF isContinuation(At(buffer, locals.index)) THEN @ ELSE @ + 1,
                        !.index = @ + 1,
                        !.limit = @ - 1,
                        !.iterations = @ + 1,
                        !.reads = @ \cup {locals.index}]
    ELSE Left(locals, {})

\* the uint16_t value read at index: low byte first in strlenUTF16le, high byte
\* first in strlenUTF16be
value16(buffer, index, little) ==
    IF little THEN Shl(At(buffer, index + 1), 8) + At(buffer, index)
    ELSE Shl(At(buffer, index), 8) + At(buffer, index + 1)

\* the body of the loop of strlenUTF16le/be(buffer, size) and its limit -= 2, the
\* test of the second unit having come out as paired
countUTF16(locals, looked, paired) ==
    [locals EXCEPT !.index = IF paired THEN @ + 4 ELSE @ + 2,
                   !.limit = IF paired THEN @ - 4 ELSE @ - 2,
                   !.count = @ + 1,
                   !.iterations = @ + 1,
                   !.reads = @ \cup {locals.index + i : i \in 0 .. (IF looked THEN 3 ELSE 1)}]

\* strlenUTF16le(buffer, size) and strlenUTF16be(buffer, size):
\* for (limit = size; limit >= 2; limit -= 2)
strlenUTF16Sized(buffer, locals, little) ==
    IF buffer = nullptr THEN Left(locals, {})
    ELSE IF locals.limit >= 2
    THEN IF And(value16(buffer, locals.index, little), \hfc00) = \hd800 /\ locals.limit >= 4
         THEN countUTF16(locals, TRUE,
                         And(value16(buffer, locals.index + 2, little), \hfc00) = \hdc00)
         ELSE countUTF16(locals, FALSE, FALSE)
    ELSE Left(locals, {})

\* the decode primitive a sizing function calls on &buffer[index]
decode(name, buffer, size, use_java) ==
    CASE name \in {"strsizeUTF8fromUTF16le"} -> getUTF16le(buffer, size)
      [] name \in {"strsizeUTF8fromUTF16be"} -> getUTF16be(buffer, size)
      [] name \in {"strsizeUTF8fromUTF32le", "strsizeUTF16fromUTF32le"} ->
             getUTF32le(buffer, size)
      [] name \in {"strsizeUTF8fromUTF32be", "strsizeUTF16fromUTF32be"} ->
             getUTF32be(buffer, size)
      [] name \in {"strsizeUTF16fromUTF8"} -> getUTF8(buffer, size, use_java)

\* the body of the null-terminated sizing loops and their index += bytes, the decode
\* having returned got: unicode = -1 after a Java-style C0 80 in strsizeUTF16fromUTF8
sized(got, name, use_java, locals) ==
    [locals EXCEPT !.unicode = IF got.ok /\ got.unicode = 0 /\ name = "strsizeUTF16fromUTF8"
                                  /\ use_java /\ got.bytes = 2
                               THEN -1 ELSE got.unicode,
                   !.bytes = got.bytes,
                   !.index = @ + got.bytes,
                   !.iterations = @ + 1,
                   !.reads = @ \cup {locals.index + i : i \in got.reads}]

\* strsizeXfromY(buffer): for (index = 0; unicode; index += bytes) with
\* getY(&buffer[index], 4, unicode, bytes) in the body
strsize(name, buffer, use_java, locals) ==
    IF buffer = nullptr THEN Left(locals, {})
    ELSE IF locals.unicode # 0
    THEN sized(decode(name, SubSeq(buffer, locals.index + 1, Len(buffer)), 4, use_java),
               name, use_java, locals)
    ELSE Left(locals, {})

\* the body of the sized sizing loops and their index += bytes, the decode having
\* returned got: break on a failure that left unicode 0, else limit -= bytes
sizedWithin(got, locals) ==
    IF ~got.ok /\ got.unicode = 0
    THEN [locals EXCEPT !.unicode = got.unicode, !.bytes = got.bytes,
                        !.iterations = @ + 1, !.done = TRUE,
                        !.reads = @ \cup {locals.index + i : i \in got.reads}]
    ELSE [locals EXCEPT !.unicode = got.unicode, !.bytes = got.bytes,
                        !.limit = @ - got.bytes,
                        !.index = @ + got.bytes,
                        !.iterations = @ + 1,
                        !.reads = @ \cup {locals.index + i : i \in got.reads}]

\* strsizeXfromY(buffer, size): for (index = 0; index < size; index += bytes) with
\* getY(&buffer[index], limit, unicode, bytes) in the body
strsizeSized(name, buffer, size, use_java, locals) ==
    IF buffer = nullptr THEN Left(locals, {})
    ELSE IF locals.index < size
    THEN sizedWithin(decode(name, SubSeq(buffer, locals.index + 1, Len(buffer)),
                            locals.limit, use_java),
                     locals)
    ELSE Left(locals, {})

\* the body of the while loop of IUTF::getLine, getNLF(scan, unicode, bytes) having
\* returned got: the loop is left when getNLF fails and at the end of a line
scanned(got, locals) ==
    IF got.ok
    THEN IF endsLine(got.unicode)
         THEN [locals EXCEPT !.unicode = got.unicode, !.bytes = got.bytes + locals.index,
                             !.iterations = @ + 1, !.done = TRUE]
         ELSE [locals EXCEPT !.unicode = got.unicode, !.bytes = got.bytes,
                             !.index = @ + got.bytes, !.iterations = @ + 1]
    ELSE [locals EXCEPT !.unicode = got.unicode, !.bytes = got.bytes, !.done = TRUE]

\* one turn of the while loop of IUTF::getLine: locals.index is scan.offset
getLineTurn(handler, memory, text, locals) ==
    IF text.buffer # 0 /\ text.offset <= text.length
    THEN scanned(getNLF(handler, memory,
                        utf_text(text.buffer + text.offset, text.length - text.offset,
                                 locals.index)),
                 locals)
    ELSE Left(locals, {})

\* the body of the while loop of IUTF::validate, read(scan, unicode) having
\* returned got
validated(got, locals) ==
    IF got.ok
    THEN [locals EXCEPT !.unicode = got.unicode, !.bytes = got.bytes,
                        !.index = @ + got.bytes, !.iterations = @ + 1]
    ELSE [locals EXCEPT !.unicode = got.unicode, !.bytes = got.bytes,
                        !.iterations = @ + 1, !.done = TRUE]

\* the entry test of IUTF::validate and one turn of its while loop: scan is text
\* moved on by locals.index
validateTurn(handler, memory, text, locals) ==
    IF text.buffer = 0 \/ text.offset < text.length
    THEN Left(locals, {})
    ELSE IF text.offset + locals.index < text.length
    THEN validated(read(handler, memory, Advance(text, locals.index)), locals)
    ELSE Left(locals, {})

\* ---- threads that decode ---------------------------------------------------
\*
\* A thread is the record of its own utf_text cursor (text), the operations it has
\* called (calls), what each returned with the cursor it left (seen), and pending:
\* what the decode inside read, readNLF or readLine returned, until the thread
\* executes text.offset += bytes.  The handler returned by getHandler is one const
\* object without data members, shared by the threads, and the buffer is shared.

\* the decode an operation starts with: IUTF::get in get and read, getNLF in getNLF
\* and readNLF, getLine in getLine and readLine, and the whole of validate
called(op, handler, memory, text) ==
    CASE op \in {"get", "read"} -> IUTF_get(handler, memory, text)
      [] op \in {"getNLF", "readNLF"} -> getNLF(handler, memory, text)
      [] op \in {"getLine", "readLine"} -> getLine(handler, memory, text)
      [] op = "validate" -> [ok |-> validate(handler, memory, text), bytes |-> 0]

\* slip: the cursor is one object that the threads share
returned_sharedCursor(threads, t, got, bytes) ==
    [u \in DOMAIN threads |->
        IF u = t
        THEN [threads[u] EXCEPT !.text = Advance(@, bytes),
                                !.seen = Append(@, [got |-> got,
                                                    text |-> Advance(threads[t].text, bytes)]),
                                !.pending = <<>>]
        ELSE [threads[u] EXCEPT !.text = Advance(threads[t].text, bytes)]]

\* text.offset += bytes on the caller's own cursor (bytes is 0 for the operations
\* that take a const utf_text&), and the return to the caller
returned(threads, t, got, bytes) ==
    [threads EXCEPT ![t] = [@ EXCEPT !.text = Advance(@, bytes),
                                     !.seen = Append(@, [got |-> got,
                                                         text |-> Advance(threads[t].text, bytes)]),
                                     !.pending = <<>>]]

\* thread t has called op and its decode has returned got: read, readNLF and
\* readLine have their second statement still to execute
entered(threads, t, op, got) ==
    IF op \in {"read", "readNLF", "readLine"}
    THEN [threads EXCEPT ![t] = [@ EXCEPT !.calls = Append(@, op), !.pending = <<got>>]]
    ELSE returned([threads EXCEPT ![t] = [@ EXCEPT !.calls = Append(@, op)]], t, got, 0)

\* ---- identifyUTF -----------------------------------------------------------

\* the return value and the bytes out-parameter of identifyUTF
Identified(utf_type, bom) == [type |-> utf_type, bytes |-> bom]

\* slip: the size tests around the comparisons are left out
startsWith_anySize(buffer, size, bom) ==
    \A i \in 1 .. Len(bom) : At(buffer, i - 1) = bom[i]

\* (size >= n) && (buffer[0] == bom[0]) && ... && (buffer[n-1] == bom[n-1])
startsWith(buffer, size, bom) ==
    /\ size >= Len(bom)
    /\ \A i \in 1 .. Len(bom) : At(buffer, i - 1) = bom[i]

\* string[i] of reinterpret_cast<const char*>(buffer): plain char is a signed type
\* on some builds (a byte above 0x7f is negative) and an unsigned type on others
char(byte, char_signed) == IF char_signed /\ byte >= \h80 THEN byte - 256 ELSE byte

identifyUTF(buffer, size, char_signed) ==
    IF buffer # nullptr
    THEN IF startsWith(buffer, size, <<\hff, \hfe, \h00, \h00>>)
         THEN Identified("UTF32le", 4)
         ELSE IF startsWith(buffer, size, <<\h00, \h00, \hfe, \hff>>)
         THEN Identified("UTF32be", 4)
         ELSE IF startsWith(buffer, size, <<\hef, \hbb, \hbf>>)
         THEN Identified("UTF8", 3)
         ELSE IF startsWith(buffer, size, <<\hff, \hfe>>)
         THEN Identified("UTF16le", 2)
         ELSE IF startsWith(buffer, size, <<\hfe, \hff>>)
         THEN Identified("UTF16be", 2)
         ELSE LET string(i) == char(At(buffer, i), char_signed)
              IN  IF size >= 8
                     /\ string(1) = 0 /\ string(2) = 0 /\ string(5) = 0 /\ string(6) = 0
                     /\ string(3) = 0 /\ string(7) = 0 /\ string(0) > 0 /\ string(4) > 0
                  THEN Identified("UTF32le", 0)
                  ELSE IF size >= 8
                     /\ string(1) = 0 /\ string(2) = 0 /\ string(5) = 0 /\ string(6) = 0
                     /\ string(0) = 0 /\ string(4) = 0 /\ string(3) > 0 /\ string(7) > 0
                  THEN Identified("UTF32be", 0)
                  ELSE IF size >= 4
                     /\ string(1) = 0 /\ string(3) = 0 /\ string(0) > 0 /\ string(2) > 0
                  THEN Identified("UTF16le", 0)
                  ELSE IF size >= 4
                     /\ string(0) = 0 /\ string(2) = 0 /\ string(1) > 0 /\ string(3) > 0
                  THEN Identified("UTF16be", 0)
                  ELSE IF size >= 2 /\ string(0) > 0 /\ string(1) > 0
                  THEN Identified("UTF8", 0)
                  ELSE Identified("OTHER", 0)
    ELSE Identified("OTHER", 0)

\* ---- the calls that are explored -----------------------------------------

\* the largest size and capacity passed; a buffer holds MaxSize bytes
MaxSize == 5

\* bytes 4 .. MaxSize-1 of every buffer
Pad(b) == b \o [i \in 1 .. MaxSize - 4 |-> \h5a]

\* UTF-8: lead bytes at every class boundary, second bytes at the boundaries of
\* the overlong, surrogate and out-of-range tests, third and fourth bytes around
\* the continuation range
Lead8 == {\h00, \h41, \h7f, \h80, \hbf, \hc0, \hc1, \hc2, \hdf, \he0, \he2, \hed,
          \hef, \hf0, \hf4, \hf7, \hf8, \hff}
Second8 == {\h00, \h7f, \h80, \h82, \h8f, \h90, \h9f, \ha0, \hbf, \hc0, \hff}
Third8 == {\h7f, \h80, \hac, \hbf, \hc0}
Fourth8 == {\h7f, \h80, \hbf, \hc0}
Samples8 == {<<a, b, c, d>> : a \in Lead8, b \in Second8, c \in Third8, d \in Fourth8}

\* UTF-16: code units on both sides of the surrogate ranges, in both byte orders
Low16 == {\h00, \h41, \hff}
High16 == {\h00, \hd7, \hd8, \hdb, \hdc, \hdf, \he0, \hff}
Samples16 ==
    {<<a, b, c, d>> : a \in Low16, b \in High16, c \in Low16, d \in High16}
    \cup {<<b, a, d, c>> : a \in Low16, b \in High16, c \in Low16, d \in High16}

\* UTF-32: words around 0xD800, 0xE000, 0x10FFFF and 0x80000000, in both byte orders
B0of32 == {\h00, \h41, \hff}
B1of32 == {\h00, \hd7, \hd8, \hdf, \he0, \hff}
B2of32 == {\h00, \h01, \h10, \h11, \hff}
B3of32 == {\h00, \h01, \h80, \hff}
Samples32 ==
    {<<a, b, c, d>> : a \in B0of32, b \in B1of32, c \in B2of32, d \in B3of32}
    \cup {<<d, c, b, a>> : a \in B0of32, b \in B1of32, c \in B2of32, d \in B3of32}

DecodeBuffers == {Pad(b) : b \in Samples8 \cup Samples16 \cup Samples32} \cup {nullptr}

\* the scalars handed to the encoders: every plane boundary, the boundaries of the
\* UTF-8 lengths and of the surrogate range, values past 0x10FFFF, and negatives
Planes == 0 .. \h11
Mids == {\h00, \h01, \h03, \h07, \h08, \h20, \hd7, \hd8, \hdb, \hdc, \hdf, \he0, \hff}
Lows == {\h00, \h3f, \h40, \h48, \h7f, \h80, \hac, \hbf, \hc0, \hff}
Scalars ==
    {W(p, m * 256 + l) : p \in Planes, m \in Mids, l \in Lows}
    \cup {-1, INT32_MIN, INT32_MIN + \hc0, W(\h7fff, \hffff), W(\h0100, \h0000),
          W(\hffff, \h0041)}

\* the memory an encoder is handed: two fillings, so that every written byte differs
\* from what one of them held
EncodeBuffers == {[i \in 1 .. MaxSize |-> \haa], [i \in 1 .. MaxSize |-> \h00], nullptr}

VARIABLES
    task,       \* "decode" or "encode": which kind of call the inputs are for
    func,       \* the primitive that was called; "none" before the call
    flag,       \* its use_java or use_ascii argument
    buffer,     \* the memory behind the buffer pointer (nullptr: a null pointer)
    size,       \* the size argument
    unicode,    \* the scalar: in-parameter of an encode, out-parameter of a decode
    bytes,      \* the bytes out-parameter
    ok,         \* the return value
    old,        \* buffer and unicode as they were when the call was made
    reads,      \* the buffer indices the call read
    writes,     \* the buffer indices the call wrote
    handler,    \* the handler class a cursor operation is called on
    memory,     \* the memory the cursor's buffer pointer refers to
    text,       \* the caller's utf_text cursor
    line,       \* the line out-parameter of getLine and readLine
    type,       \* the UTF_TYPE identifyUTF returned; "none" before the call
    threads,    \* per thread: its own cursor, its calls and what they returned
    loop        \* the locals of a sizing or counting loop that is under way

vars == <<task, func, flag, buffer, size, unicode, bytes, ok, old, reads, writes,
          handler, memory, text, line, type, threads, loop>>

\* nothing is being identified, no thread is running and no loop is under way
Idle ==
    /\ type = "none"
    /\ threads = <<>>
    /\ loop = <<>>

\* the state of the cursor layer while the primitives are called directly
NoCursor ==
    /\ handler = "none"
    /\ memory = <<>>
    /\ text = utf_text(0, 0, 0)
    /\ line = utf_text(0, 0, 0)

Init ==
    /\ func = "none"
    /\ flag = FALSE
    /\ size \in 0 .. MaxSize
    /\ \/ task = "decode" /\ buffer \in DecodeBuffers /\ unicode = 0
       \/ task = "encode" /\ buffer \in EncodeBuffers /\ unicode \in Scalars
    /\ bytes = 0
    /\ ok = FALSE
    /\ old = [buffer |-> buffer, unicode |-> unicode]
    /\ reads = {}
    /\ writes = {}
    /\ NoCursor
    /\ Idle

\* a decode primitive returns r
Get(name, f, r) ==
    /\ task = "decode"
    /\ func = "none"
    /\ func' = name
    /\ flag' = f
    /\ ok' = r.ok
    /\ unicode' = r.unicode
    /\ bytes' = r.bytes
    /\ reads' = r.reads
    /\ UNCHANGED <<task, buffer, size, old, writes, handler, memory, text, line>>
    /\ UNCHANGED <<type, threads, loop>>

\* an encode primitive returns r
Set(name, f, r) ==
    /\ task = "encode"
    /\ func = "none"
    /\ func' = name
    /\ flag' = f
    /\ ok' = r.ok
    /\ bytes' = r.bytes
    /\ buffer' = r.buffer
    /\ writes' = r.writes
    /\ UNCHANGED <<task, size, unicode, old, reads, handler, memory, text, line>>
    /\ UNCHANGED <<type, threads, loop>>

CallGetUTF8 == \E use_java \in BOOLEAN : Get("getUTF8", use_java, getUTF8(buffer, size, use_java))
CallGetUTF16le == Get("getUTF16le", FALSE, getUTF16le(buffer, size))
CallGetUTF16be == Get("getUTF16be", FALSE, getUTF16be(buffer, size))
CallGetUTF32le == Get("getUTF32le", FALSE, getUTF32le(buffer, size))
CallGetUTF32be == Get("getUTF32be", FALSE, getUTF32be(buffer, size))
CallGetBYTE == \E use_ascii \in BOOLEAN : Get("getBYTE", use_ascii, getBYTE(buffer, size, use_ascii))
CallGetCP1252 == Get("getCP1252", FALSE, getCP1252(buffer, size))

CallSetUTF8 == \E use_java \in BOOLEAN : Set("setUTF8", use_java, setUTF8(buffer, size, unicode, use_java))
CallSetUTF16le == Set("setUTF16le", FALSE, setUTF16le(buffer, size, unicode))
CallSetUTF16be == Set("setUTF16be", FALSE, setUTF16be(buffer, size, unicode))
CallSetUTF32le == Set("setUTF32le", FALSE, setUTF32le(buffer, size, unicode))
CallSetUTF32be == Set("setUTF32be", FALSE, setUTF32be(buffer, size, unicode))
CallSetBYTE == \E use_ascii \in BOOLEAN : Set("setBYTE", use_ascii, setBYTE(buffer, size, unicode, use_ascii))
CallSetCP1252 == Set("setCP1252", FALSE, setCP1252(buffer, size, unicode))

Next ==
    \/ CallGetUTF8
    \/ CallGetUTF16le
    \/ CallGetUTF16be
    \/ CallGetUTF32le
    \/ CallGetUTF32be
    \/ CallGetBYTE
    \/ CallGetCP1252
    \/ CallSetUTF8
    \/ CallSetUTF16le
    \/ CallSetUTF16be
    \/ CallSetUTF32le
    \/ CallSetUTF32be
    \/ CallSetBYTE
    \/ CallSetCP1252

Spec == Init /\ [][Next]_vars

\* ---- the cursor operations that are explored ---------------------------

\* the most pieces (code points or stray bytes) a text is put together from
MaxPieces == 2

\* the line feed, the carriage return, the scalar 0 and an ordinary letter
TextScalars == {\h00, \h0a, \h0d, \h61}

\* the rest of the newline family
OtherNewlines == {\h0b, \h0c, \h85, \h2028, \h2029}

\* the bytes the handler encodes a scalar to; none when it cannot encode it
Encoding(h, u) ==
    LET e == set(h, <<0, 0, 0, 0>>, 4, u)
    IN  IF e.ok THEN SubSeq(e.buffer, 1, e.bytes) ELSE <<>>

RECURSIVE EncodingOfAll(_, _)
EncodingOfAll(h, scalars) ==
    IF scalars = <<>> THEN <<>>
    ELSE Encoding(h, Head(scalars)) \o EncodingOfAll(h, Tail(scalars))

\* stray bytes: an odd byte that is no UTF-8 lead, and a unit that is a lone
\* high surrogate in either byte order
Strays == {<<\hff>>, <<\hd8, \hd8>>}

Pieces(h) == {Encoding(h, u) : u \in TextScalars} \cup Strays

RECURSIVE TextsOf(_, _)
TextsOf(pieces, n) ==
    IF n = 0 THEN {<<>>}
    ELSE LET shorter == TextsOf(pieces, n - 1)
         IN  shorter \cup {t \o p : t \in shorter, p \in pieces}

\* texts of several lines: "a\r\nb", "a\nb\n", "a\n\rb" with a terminator, and a
\* line with a letter outside ASCII; and each other newline after a letter
LineTexts(h) ==
    {EncodingOfAll(h, scalars) :
        scalars \in {<<\h61, \h0d, \h0a, \h62>>, <<\h61, \h0a, \h62, \h0a>>,
                     <<\h61, \h0a, \h0d, \h62, \h00>>, <<\h61, \he9, \h0d, \h0a>>}
                    \cup {<<\h61, u>> : u \in OtherNewlines}}

Texts(h) == TextsOf(Pieces(h), MaxPieces) \cup LineTexts(h)

\* the scalars handed to write: a letter, a scalar past the BMP, and a surrogate
\* that no handler encodes
WriteScalars == {\h61, \h10000, \hd800}

InitCursor ==
    /\ task = "cursor"
    /\ func = "none"
    /\ flag = FALSE
    /\ buffer = nullptr
    /\ size = 0
    /\ unicode = 0
    /\ bytes = 0
    /\ ok = FALSE
    /\ reads = {}
    /\ writes = {}
    /\ handler \in Handlers
    /\ \E t \in Texts(handler) :
          \/ memory = t \o <<\h5a, \h5a, \h5a, \h5a>> /\ text = utf_text(1, Len(t), 0)
          \/ memory = <<>> /\ text = utf_text(0, 0, 0) /\ t = <<>>
    /\ line = utf_text(0, 0, 0)
    /\ old = [text |-> text, memory |-> memory]
    /\ Idle

\* a cursor operation returns: the caller's cursor and the memory are now t and m
Cursor(name, t, m) ==
    /\ task = "cursor"
    /\ func' = name
    /\ text' = t
    /\ memory' = m
    /\ old' = [text |-> text, memory |-> memory]
    /\ UNCHANGED <<task, flag, buffer, size, reads, writes, handler>>
    /\ UNCHANGED <<type, threads, loop>>

\* bytes is the local variable of the wrapper that is added to text.offset

CallRead ==
    LET done == read(handler, memory, text)
    IN  /\ Cursor("read", done.text, memory)
        /\ ok' = done.ok /\ unicode' = done.unicode /\ bytes' = done.bytes
        /\ UNCHANGED line

CallWrite ==
    \E u \in WriteScalars :
        LET done == write(handler, memory, text, u)
        IN  /\ Cursor("write", done.text, done.memory)
            /\ ok' = done.ok /\ unicode' = u /\ bytes' = done.bytes
            /\ UNCHANGED line

CallValidate ==
    /\ Cursor("validate", text, memory)
    /\ ok' = validate(handler, memory, text)
    /\ UNCHANGED <<unicode, bytes, line>>

CallReadNLF ==
    LET done == readNLF(handler, memory, text)
    IN  /\ Cursor("readNLF", done.text, memory)
        /\ ok' = done.ok /\ unicode' = done.unicode /\ bytes' = done.bytes
        /\ UNCHANGED line

CallReadLine ==
    LET done == readLine(handler, memory, text)
    IN  /\ Cursor("readLine", done.text, memory)
        /\ ok' = done.ok /\ line' = done.line /\ bytes' = done.bytes
        /\ UNCHANGED unicode

NextCursor ==
    \/ CallRead
    \/ CallWrite
    \/ CallValidate
    \/ CallReadNLF
    \/ CallReadLine

CursorSpec == InitCursor /\ [][NextCursor]_vars

\* ---- the calls of identifyUTF that are explored --------------------------

\* the largest size passed to identifyUTF; a buffer holds IdentifySize bytes
IdentifySize == 8

\* the first four bytes: every byte of a byte-order mark, an ASCII letter, a zero
\* and a byte above 0x7f, where they can matter; the second four bytes: a second
\* code unit of each width and byte order, with a low byte that is ASCII or above
\* 0x7f
IdentifyBuffers ==
    LET Heads == {<<a, b, c, d>> : a \in {\h00, \h41, \hc3, \hef, \hfe, \hff},
                                   b \in {\h00, \h41, \hc3, \hbb, \hfe, \hff},
                                   c \in {\h00, \h41, \hc3, \hbf, \hfe},
                                   d \in {\h00, \h41, \hc3, \hff}}
        Tails == {<<\h41, \h00, \h00, \h00>>, <<\hc3, \h00, \h00, \h00>>,
                  <<\h00, \h00, \h00, \h41>>, <<\h00, \h00, \h00, \hc3>>,
                  <<\h41, \h00, \h41, \h00>>, <<\h00, \h00, \h00, \h00>>}
    IN  {h \o t \o [i \in 1 .. IdentifySize - 8 |-> \h5a] : h \in Heads, t \in Tails}
        \cup {nullptr}

InitIdentify ==
    /\ task = "identify"
    /\ func = "none"
    /\ flag = FALSE
    /\ buffer \in IdentifyBuffers
    /\ size \in 0 .. IdentifySize
    /\ unicode = 0
    /\ bytes = 0
    /\ ok = FALSE
    /\ old = [buffer |-> buffer, unicode |-> unicode]
    /\ reads = {}
    /\ writes = {}
    /\ NoCursor
    /\ Idle

\* identifyUTF(buffer, size, bytes) returns, in a build whose plain char is signed
\* (flag) or unsigned
CallIdentifyUTF ==
    /\ task = "identify"
    /\ func = "none"
    /\ \E char_signed \in BOOLEAN :
          LET found == identifyUTF(buffer, size, char_signed)
          IN  /\ flag' = char_signed
              /\ type' = found.type
              /\ bytes' = found.bytes
    /\ func' = "identifyUTF"
    /\ UNCHANGED <<task, buffer, size, unicode, ok, old, reads, writes>>
    /\ UNCHANGED <<handler, memory, text, line, threads, loop>>

IdentifySpec == InitIdentify /\ [][CallIdentifyUTF]_vars

\* ---- the loops that are explored -----------------------------------------

\* UTF-8: sequences of every length, the Java-style C0 80, a stray continuation
\* byte, sequences cut short after one, two and three bytes, and the byte 0
Pieces8 ==
    {<<\h41>>, <<\h0a>>, <<\hc3, \ha9>>, <<\he2, \h82, \hac>>, <<\hf0, \h90, \h80, \h80>>,
     <<\hc0, \h80>>, <<\h80>>, <<\hc3>>, <<\he2, \h82>>, <<\hf0, \h90, \h80>>, <<\h00>>}

\* UTF-16: a letter, a line feed, a high and a low surrogate and the unit 0
Pieces16(little) ==
    {IF little THEN <<u[2], u[1]>> ELSE u :
        u \in {<<\h00, \h41>>, <<\h00, \h0a>>, <<\hd8, \h3d>>, <<\hdc, \h00>>, <<\h00, \h00>>}}

\* UTF-32: a letter, a line feed, U+10000, a surrogate, 0x110000, 0x80000000 and
\* the word 0
Pieces32(little) ==
    {IF little THEN <<u[4], u[3], u[2], u[1]>> ELSE u :
        u \in {<<\h00, \h00, \h00, \h41>>, <<\h00, \h00, \h00, \h0a>>,
               <<\h00, \h01, \h00, \h00>>, <<\h00, \h00, \hd8, \h00>>,
               <<\h00, \h11, \h00, \h00>>, <<\h80, \h00, \h00, \h00>>,
               <<\h00, \h00, \h00, \h00>>}}

\* the loops: task "sized" is the (buffer, size) overload, "terminated" the (buffer)
\* overload, "scan" a loop over a cursor; unit is the width of a code unit
Loops ==
    {[task |-> "sized", func |-> "strlenUTF8", unit |-> 1, little |-> TRUE, handler |-> "none"],
     [task |-> "terminated", func |-> "strlenUTF8", unit |-> 1, little |-> TRUE, handler |-> "none"],
     [task |-> "scan", func |-> "getLine", unit |-> 1, little |-> TRUE, handler |-> "CUTF8"],
     [task |-> "scan", func |-> "getLine", unit |-> 2, little |-> TRUE, handler |-> "CUTF16le"],
     [task |-> "scan", func |-> "getLine", unit |-> 4, little |-> FALSE, handler |-> "CUTF32be"],
     [task |-> "scan", func |-> "validate", unit |-> 1, little |-> TRUE, handler |-> "CUTF8"],
     [task |-> "scan", func |-> "validate", unit |-> 2, little |-> FALSE, handler |-> "CUTF16be"]}
    \cup {[task |-> "sized", func |-> f, unit |-> 2, little |-> f = "strlenUTF16le",
           handler |-> "none"] : f \in {"strlenUTF16le", "strlenUTF16be"}}
    \cup {[task |-> t, func |-> f, unit |-> 1, little |-> TRUE, handler |-> "none"] :
             t \in {"sized", "terminated"}, f \in {"strsizeUTF16fromUTF8"}}
    \cup {[task |-> t, func |-> f, unit |-> 2, little |-> f = "strsizeUTF8fromUTF16le",
           handler |-> "none"] :
             t \in {"sized", "terminated"},
             f \in {"strsizeUTF8fromUTF16le", "strsizeUTF8fromUTF16be"}}
    \cup {[task |-> t, func |-> f, unit |-> 4,
           little |-> f \in {"strsizeUTF8fromUTF32le", "strsizeUTF16fromUTF32le"},
           handler |-> "none"] :
             t \in {"sized", "terminated"},
             f \in {"strsizeUTF8fromUTF32le", "strsizeUTF8fromUTF32be",
                    "strsizeUTF16fromUTF32le", "strsizeUTF16fromUTF32be"}}

\* the contents a loop runs over: up to MaxPieces pieces of its encoding
LoopTexts(l) ==
    TextsOf(CASE l.unit = 1 -> Pieces8
              [] l.unit = 2 -> Pieces16(l.little)
              [] l.unit = 4 -> Pieces32(l.little),
            MaxPieces)

\* the bytes that follow the content in memory
Slack == <<\h5a, \h5a, \h5a, \h5a>>

InitSizing ==
    /\ \E l \in Loops : \E t \in LoopTexts(l) :
          /\ task = l.task
          /\ func = l.func
          /\ handler = l.handler
          /\ \/ /\ task = "sized"
                /\ buffer \in {t \o Slack, nullptr}
                /\ size \in 0 .. Len(t)
                /\ loop = Locals(size, 0)
                /\ memory = <<>> /\ text = utf_text(0, 0, 0)
             \/ /\ task = "terminated"
                /\ buffer \in {t \o [i \in 1 .. l.unit |-> 0] \o Slack, nullptr}
                /\ size = 0
                /\ loop = Locals(0, IF func = "strlenUTF8" THEN 0 ELSE -1)
                /\ memory = <<>> /\ text = utf_text(0, 0, 0)
             \/ /\ task = "scan"
                /\ buffer = nullptr
                /\ size = 0
                /\ loop = Locals(0, 0)
                /\ \/ /\ memory = t \o Slack
                      /\ \E offset \in {0, Len(t), Len(t) + 1} :
                            text = utf_text(1, Len(t), offset)
                   \/ memory = <<>> /\ text = utf_text(0, 0, 0) /\ t = <<>>
    /\ flag \in BOOLEAN
    /\ flag => func = "strsizeUTF16fromUTF8"
    /\ unicode = 0
    /\ bytes = 0
    /\ ok = FALSE
    /\ old = [buffer |-> buffer, memory |-> memory, text |-> text]
    /\ reads = {}
    /\ writes = {}
    /\ line = utf_text(0, 0, 0)
    /\ type = "none"
    /\ threads = <<>>

\* the loop is under way and can take its next step: a loop that went on past the
\* number of bytes there are, or whose index has left the memory, is followed no
\* further and stays not done
Running ==
    /\ ~loop.done
    /\ loop.iterations <= Len(buffer) + Len(memory)
    /\ task = "terminated" /\ buffer # nullptr => loop.index + 4 <= Len(buffer)

\* one more evaluation of the condition of the loop of func: its locals become next
Turn(next) ==
    /\ Running
    /\ loop' = next
    /\ UNCHANGED <<task, func, flag, buffer, size, unicode, bytes, ok, old, reads, writes>>
    /\ UNCHANGED <<handler, memory, text, line, type, threads>>

StepStrlenUTF8 ==
    task = "terminated" /\ func = "strlenUTF8" /\ Turn(strlenUTF8(buffer, loop))

StepStrlenUTF8Sized ==
    task = "sized" /\ func = "strlenUTF8" /\ Turn(strlenUTF8Sized(buffer, loop))

StepStrlenUTF16Sized ==
    /\ task = "sized"
    /\ func \in {"strlenUTF16le", "strlenUTF16be"}
    /\ Turn(strlenUTF16Sized(buffer, loop, func = "strlenUTF16le"))

StepStrsize ==
    /\ task = "terminated"
    /\ func # "strlenUTF8"
    /\ Turn(strsize(func, buffer, flag, loop))

StepStrsizeSized ==
    /\ task = "sized"
    /\ func \notin {"strlenUTF8", "strlenUTF16le", "strlenUTF16be"}
    /\ Turn(strsizeSized(func, buffer, size, flag, loop))

StepGetLine ==
    task = "scan" /\ func = "getLine" /\ Turn(getLineTurn(handler, memory, text, loop))

StepValidate ==
    task = "scan" /\ func = "validate" /\ Turn(validateTurn(handler, memory, text, loop))

NextSizing ==
    \/ StepStrlenUTF8
    \/ StepStrlenUTF8Sized
    \/ StepStrlenUTF16Sized
    \/ StepStrsize
    \/ StepStrsizeSized
    \/ StepGetLine
    \/ StepValidate

SizingSpec == InitSizing /\ [][NextSizing]_vars

\* ---- the threads that are explored ---------------------------------------

\* the most operations the two threads call altogether
MaxCalls == 3

\* the decode-side operations
DecodeSide == {"get", "read", "getNLF", "readNLF", "getLine", "readLine", "validate"}

\* two threads, each with its own cursor over one buffer: "a\r\nb\n", or a letter,
\* a stray unit and a line feed; the second thread starts one code unit further on
InitThreads ==
    /\ task = "threads"
    /\ func = "none"
    /\ flag = FALSE
    /\ buffer = nullptr
    /\ size = 0
    /\ unicode = 0
    /\ bytes = 0
    /\ ok = FALSE
    /\ reads = {}
    /\ writes = {}
    /\ handler \in {"CUTF8", "CUTF16le"}
    /\ \E t \in {EncodingOfAll(handler, <<\h61, \h0d, \h0a, \h62, \h0a>>),
                 Encoding(handler, \h61) \o <<\hd8, \hd8>> \o Encoding(handler, \h0a)} :
          /\ memory = t \o Slack
          /\ threads = [i \in 1 .. 2 |->
                           [text |-> utf_text(1, Len(t), (i - 1) * unitSize(handler)),
                            calls |-> <<>>, seen |-> <<>>, pending |-> <<>>]]
    /\ text = utf_text(0, 0, 0)
    /\ line = utf_text(0, 0, 0)
    /\ old = [memory |-> memory, texts |-> [i \in 1 .. 2 |-> threads[i].text]]
    /\ type = "none"
    /\ loop = <<>>

\* a thread calls a decode-side operation on the shared handler with its own cursor
ThreadCalls ==
    /\ task = "threads"
    /\ \E t \in DOMAIN threads : \E op \in DecodeSide :
          /\ Len(threads[t].pending) = 0
          /\ Len(threads[1].calls) + Len(threads[2].calls) < MaxCalls
          /\ threads' = entered(threads, t, op,
                                called(op, handler, memory, threads[t].text))
    /\ UNCHANGED <<task, func, flag, buffer, size, unicode, bytes, ok, old, reads, writes>>
    /\ UNCHANGED <<handler, memory, text, line, type, loop>>

\* a thread inside read, readNLF or readLine executes text.offset += bytes and returns
ThreadReturns ==
    /\ task = "threads"
    /\ \E t \in DOMAIN threads :
          /\ Len(threads[t].pending) = 1
          /\ threads' = returned(threads, t, threads[t].pending[1],
                                 threads[t].pending[1].bytes)
    /\ UNCHANGED <<task, func, flag, buffer, size, unicode, bytes, ok, old, reads, writes>>
    /\ UNCHANGED <<handler, memory, text, line, type, loop>>

NextThreads == ThreadCalls \/ ThreadReturns

ThreadSpec == InitThreads /\ [][NextThreads]_vars

\* ---- vocabulary of the properties ----------------------------------------

UTFGet == {"getUTF8", "getUTF16le", "getUTF16be", "getUTF32le", "getUTF32be"}

AnyGet == UTFGet \cup {"getBYTE", "getCP1252"}

UTFSet == {"setUTF8", "setUTF16le", "setUTF16be", "setUTF32le", "setUTF32be"}

AnySet == UTFSet \cup {"setBYTE", "setCP1252"}

\* a Unicode scalar value
IsRune(u) == u >= 0 /\ u <= 1114111 /\ ~(u >= 55296 /\ u <= 57343)

\* the code-unit size of the encoding a primitive works on
UnitSize(name) ==
    IF name \in {"getUTF16le", "getUTF16be", "setUTF16le", "setUTF16be"} THEN 2
    ELSE IF name \in {"getUTF32le", "getUTF32be", "setUTF32le", "setUTF32be"} THEN 4
    ELSE 1

\* the decoder that matches an encoder, applied to the first n bytes of mem
Redecode(name, f, mem, n) ==
    CASE name = "setUTF8" -> getUTF8(mem, n, f)
      [] name = "setUTF16le" -> getUTF16le(mem, n)
      [] name = "setUTF16be" -> getUTF16be(mem, n)
      [] name = "setUTF32le" -> getUTF32le(mem, n)
      [] name = "setUTF32be" -> getUTF32be(mem, n)

\* the buffer of the call holds at least one whole code unit
HoldsUnit == old.buffer # nullptr /\ size >= UnitSize(func)

\* C1: a rune encoded with capacity 4 by any UTF encoder (UTF-8 with the Java flag
\* off or on, UTF-16LE/BE, UTF-32LE/BE) is written in n bytes, and the matching
\* decoder given those n bytes returns true, the same rune and n.
C1_RoundTrip ==
    (func \in UTFSet /\ IsRune(unicode) /\ old.buffer # nullptr /\ size = 4)
        => /\ ok
           /\ bytes \in 1 .. 4
           /\ LET back == Redecode(func, flag, buffer, bytes)
              IN  back.ok /\ back.unicode = unicode /\ back.bytes = bytes

\* the largest rune went through UTF-16BE as a surrogate pair
C1_Witness ==
    /\ func = "setUTF16be" /\ unicode = 1114111 /\ size = 4 /\ ok /\ bytes = 4
    /\ getUTF16be(buffer, 4).unicode = 1114111

\* C2: a UTF-8, UTF-16 or UTF-32 decode that returns true outputs a rune.
C2_DecodedIsRune == (func \in UTFGet /\ ok) => IsRune(unicode)

\* a surrogate pair decoded to a supplementary rune
C2_Witness == func = "getUTF16le" /\ ok /\ bytes = 4 /\ unicode >= 65536

C5_NonRuneRejected ==
    (func \in UTFSet /\ ~IsRune(unicode)) => (~ok /\ bytes = 0)

\* setUTF16le with capacity 2 was handed 0xD800
C5_Witness ==
    /\ func = "setUTF16le" /\ old.buffer # nullptr /\ size = 2 /\ unicode = 55296
    /\ ~ok /\ bytes = 0

\* C6: an encode that returns false reports bytes = 0 and writes nothing; one that
\* returns true writes exactly the first bytes bytes, bytes <= capacity, and leaves
\* every later byte as it was.
C6_AllOrNothing ==
    func \in AnySet
        => IF ok
           THEN /\ bytes <= size
                /\ writes = 0 .. bytes - 1
                /\ \A i \in bytes .. Len(buffer) - 1 : At(buffer, i) = At(old.buffer, i)
           ELSE bytes = 0 /\ writes = {} /\ buffer = old.buffer

\* a supplementary rune did not fit a UTF-16 capacity of 3
C6_Witness ==
    /\ func = "setUTF16le" /\ unicode = 65536 /\ size = 3 /\ old.buffer # nullptr
    /\ ~ok /\ buffer = old.buffer

\* C7: a decode reads only indices below size and below 4, reports bytes <= size,
\* returns a definite triple, and reports 1 .. 4 bytes when it succeeds.
C7_ReadsInBounds ==
    func \in AnyGet
        => /\ \A i \in reads : i < size /\ i < 4
           /\ bytes <= size
           /\ ok \in BOOLEAN
           /\ unicode \in INT32_MIN .. -1 \/ unicode \in 0 .. W(\h7fff, \hffff)
           /\ bytes \in 0 .. 4
           /\ ok => bytes \in 1 .. 4

\* a 4-byte lead with only three bytes of input: nothing past the lead is read
C7_Witness ==
    func = "getUTF8" /\ buffer # nullptr /\ size = 3 /\ At(buffer, 0) = 240 /\ reads = {0}

\* a UTF-8 continuation byte
IsCont(b) == b >= 128 /\ b <= 191

\* the buffer starts with a well-formed UTF-8 sequence
WellFormedUTF8(mem, n) ==
    /\ mem # nullptr
    /\ n >= 1
    /\ LET b0 == mem[1]
           b1 == mem[2]
           b2 == mem[3]
           b3 == mem[4]
           v2 == (b0 - 192) * 64 + (b1 - 128)
           v3 == ((b0 - 224) * 64 + (b1 - 128)) * 64 + (b2 - 128)
           v4 == (((b0 - 240) * 64 + (b1 - 128)) * 64 + (b2 - 128)) * 64 + (b3 - 128)
       IN  \/ b0 <= 127
           \/ b0 >= 192 /\ b0 <= 223 /\ n >= 2 /\ IsCont(b1) /\ v2 >= 128
           \/ /\ b0 >= 224 /\ b0 <= 239 /\ n >= 3 /\ IsCont(b1) /\ IsCont(b2)
              /\ v3 >= 2048 /\ ~(v3 >= 55296 /\ v3 <= 57343)
           \/ /\ b0 >= 240 /\ b0 <= 247 /\ n >= 4 /\ IsCont(b1) /\ IsCont(b2) /\ IsCont(b3)
              /\ v4 >= 65536 /\ v4 <= 1114111

\* the buffer starts with C0 80
StartsC080(mem, n) == mem # nullptr /\ n >= 2 /\ mem[1] = 192 /\ mem[2] = 128

\* C8: getUTF8 returns true exactly on a well-formed UTF-8 sequence, and with the
\* Java flag on also on C0 80, which gives (true, 0, 2); with the flag off C0 80
\* fails with scalar 0x800000C0.
C8_AcceptsWellFormed ==
    func = "getUTF8"
        => /\ ok <=> (WellFormedUTF8(buffer, size) \/ (flag /\ StartsC080(buffer, size)))
           /\ (flag /\ StartsC080(buffer, size)) => (ok /\ unicode = 0 /\ bytes = 2)
           /\ (~flag /\ StartsC080(buffer, size)) => (~ok /\ unicode = INT32_MIN + 192)

\* C0 80 was refused with the flag off
C8_Witness ==
    /\ func = "getUTF8" /\ ~flag /\ StartsC080(buffer, size)
    /\ ~ok /\ unicode = INT32_MIN + 192

\* the width a UTF-8 lead byte declares (0: no multi-byte lead)
DeclaredWidth(b0) ==
    IF b0 >= 192 /\ b0 <= 223 THEN 2
    ELSE IF b0 >= 224 /\ b0 <= 239 THEN 3
    ELSE IF b0 >= 240 /\ b0 <= 247 THEN 4
    ELSE 0

\* getUTF8 was given a multi-byte lead and fewer bytes than it declares
Truncated ==
    /\ func = "getUTF8" /\ buffer # nullptr /\ size >= 1
    /\ DeclaredWidth(At(buffer, 0)) > size

\* C9 as stated: a truncated sequence fails, with bytes = 0 only if size = 1 and
\* otherwise bytes = the declared width.
C9_TruncationAsStated ==
    Truncated
        => /\ ~ok
           /\ bytes = 0 => size = 1
           /\ size > 1 => bytes = DeclaredWidth(At(buffer, 0))

\* C9 amended: a truncated sequence fails with bytes = 1, for size = 1 too; getUTF8
\* reports bytes = 0 only for a null buffer or size = 0.
C9_TruncationReportsOne ==
    /\ Truncated => (~ok /\ bytes = 1)
    /\ (func = "getUTF8" /\ bytes = 0) => (buffer = nullptr \/ size = 0)

\* a 3-byte lead with two bytes of input
C9_Witness == Truncated /\ size = 2 /\ At(buffer, 0) = 224 /\ ~ok /\ bytes = 1

CalledInBounds == func # "none" /\ old.text.offset <= old.text.length

\* the bytes left between the offset and the length when the operation was called
Remaining == old.text.length - old.text.offset

\* C11: a read whose decode fails reports bytes = 0 only when the cursor was at the
\* end of the buffer (offset = length), so that a caller that goes on reading while
\* offset < length, past failed reads, always moves forward and reaches the end.
C11_ZeroOnlyAtEnd ==
    (func = "read" /\ CalledInBounds /\ ~ok /\ bytes = 0) => old.text.offset = old.text.length

\* the first and the second 16-bit code unit of the buffer of a UTF-16 call,
\* in the byte order of the primitive
Unit16(mem, i) ==
    IF func \in {"getUTF16le", "setUTF16le"}
    THEN At(mem, i) + 256 * At(mem, i + 1)
    ELSE 256 * At(mem, i) + At(mem, i + 1)

IsHigh(v) == v >= 55296 /\ v <= 56319

IsLow(v) == v >= 56320 /\ v <= 57343

\* C12: getUTF16le/be on a buffer of at least one code unit: a first unit outside
\* 0xD800..0xDFFF decodes to itself with bytes = 2; a high surrogate followed
\* within size by a low surrogate decodes to
\* ((high & 0x3FF) << 10) + (low & 0x3FF) + 0x10000 with bytes = 4; a high
\* surrogate with fewer than 4 bytes, a high surrogate followed by anything but a
\* low surrogate, and a leading low surrogate fail with bytes = 2.
C12_UTF16Decode ==
    (func \in {"getUTF16le", "getUTF16be"} /\ old.buffer # nullptr /\ size >= 2)
        => LET first == Unit16(old.buffer, 0)
               second == Unit16(old.buffer, 2)
           IN  /\ (~IsHigh(first) /\ ~IsLow(first))
                     => (ok /\ unicode = first /\ bytes = 2)
               /\ (IsHigh(first) /\ size >= 4 /\ IsLow(second))
                     => /\ ok
                        /\ unicode = (first % 1024) * 1024 + (second % 1024) + 65536
                        /\ bytes = 4
               /\ (IsHigh(first) /\ size < 4) => (~ok /\ bytes = 2)
               /\ (IsHigh(first) /\ size >= 4 /\ ~IsLow(second)) => (~ok /\ bytes = 2)
               /\ IsLow(first) => (~ok /\ bytes = 2)

\* DB FF DF FF was decoded by getUTF16be to the largest rune
C12_Witness ==
    /\ func = "getUTF16be" /\ old.buffer # nullptr /\ size >= 4
    /\ Unit16(old.buffer, 0) = 56319 /\ Unit16(old.buffer, 2) = 57343
    /\ ok /\ unicode = 1114111 /\ bytes = 4

\* C13: setUTF16le/be with capacity >= 4 writes a scalar v in 0x10000..0x10FFFF as
\* the 4 bytes of the high surrogate 0xD800 + ((v - 0x10000) >> 10) and then the
\* low surrogate 0xDC00 + ((v - 0x10000) & 0x3FF), each unit in the byte order
\* of the variant (00 D8 00 DC for 0x10000 under UTF-16LE); a scalar up to
\* 0xFFFF that is no surrogate is written as the one 2-byte unit v.
C13_UTF16Wire ==
    (func \in {"setUTF16le", "setUTF16be"} /\ old.buffer # nullptr)
        => /\ (unicode >= 65536 /\ unicode <= 1114111 /\ size >= 4)
                 => /\ ok /\ bytes = 4
                    /\ Unit16(buffer, 0) = 55296 + ((unicode - 65536) \div 1024)
                    /\ Unit16(buffer, 2) = 56320 + ((unicode - 65536) % 1024)
                    /\ (func = "setUTF16le" /\ unicode = 65536)
                          => SubSeq(buffer, 1, 4) = <<0, 216, 0, 220>>
           /\ (unicode >= 0 /\ unicode <= 65535 /\ ~IsHigh(unicode) /\ ~IsLow(unicode)
               /\ size >= 2)
                 => (ok /\ bytes = 2 /\ Unit16(buffer, 0) = unicode)

\* 0x10000 was written by setUTF16le as 00 D8 00 DC
C13_Witness ==
    /\ func = "setUTF16le" /\ old.buffer # nullptr /\ unicode = 65536 /\ size >= 4
    /\ ok /\ bytes = 4 /\ SubSeq(buffer, 1, 4) = <<0, 216, 0, 220>>

Readers == {"read", "readNLF", "readLine"}

\* how far the operation that last returned moved the offset
Advanced == text.offset - old.text.offset

Place == old.text.buffer + old.text.offset

\* the memory outside the n bytes at Place is as it was
OnlyWrote(n) ==
    /\ Len(memory) = Len(old.memory)
    /\ \A a \in 1 .. Len(memory) : (a < Place \/ a >= Place + n) => memory[a] = old.memory[a]

\* C15: write called with offset <= length either returns true, having written
\* the encoding of the scalar at buffer[offset..] and nothing else and moved the
\* offset by the number of bytes written, or returns false, having changed
\* neither the offset nor any byte; it returns false exactly when the handler
\* cannot encode the scalar, fewer bytes than the encoding needs are left before
\* length, or the buffer is null.
C15_WriteAdvances ==
    (func = "write" /\ CalledInBounds)
        => LET code == Encoding(handler, unicode)
           IN  /\ ok <=> (old.text.buffer # 0 /\ code # <<>> /\ Len(code) <= Remaining)
               /\ ok => /\ bytes = Len(code)
                        /\ Advanced = bytes
                        /\ SubSeq(memory, Place, Place + bytes - 1) = code
                        /\ OnlyWrote(bytes)
                        /\ get(handler, Deref(memory, Place), bytes)
                               = Decoded(TRUE, unicode, bytes, 0 .. bytes - 1)
               /\ ~ok => (Advanced = 0 /\ bytes = 0 /\ memory = old.memory)

\* CUTF16be wrote 0x10000 as a surrogate pair behind the start of the buffer
C15_Witness ==
    /\ func = "write" /\ handler = "CUTF16be" /\ CalledInBounds /\ old.text.offset >= 2
    /\ unicode = 65536 /\ ok /\ Advanced = 4
    /\ SubSeq(memory, Place, Place + 3) = <<216, 0, 220, 0>>
    /\ memory # old.memory

\* C16: whatever sequence of read, readNLF, readLine, write and validate calls is
\* made on a cursor that starts with offset <= length, with any handler and any
\* buffer contents, offset <= length still holds, no call decreases the offset,
\* and no call changes the length, the buffer pointer or the size of the memory.
C16_CursorBounds ==
    task = "cursor"
        => /\ text.offset <= text.length
           /\ text.offset >= old.text.offset
           /\ text.length = old.text.length
           /\ text.buffer = old.text.buffer
           /\ Len(memory) = Len(old.memory)

\* a write that followed other calls filled the buffer exactly to its length
C16_Witness ==
    /\ func = "write" /\ ok /\ old.text.offset >= 1 /\ Advanced >= 1
    /\ text.offset = text.length

\* every code point from the offset of t up to its length decodes
RECURSIVE AllDecode(_, _, _)
AllDecode(h, m, t) ==
    \/ t.offset >= t.length
    \/ LET got == IUTF_get(h, m, t)
       IN  got.ok /\ AllDecode(h, m, Advance(t, got.bytes))

\* C17: validate called on a non-null buffer with offset <= length returns true
\* if every code point from offset up to length decodes, false if one of them
\* does not, and leaves the caller's cursor as it was.
C17_ValidateDecodesAll ==
    (func = "validate" /\ CalledInBounds /\ old.text.buffer # 0)
        => /\ ok <=> AllDecode(handler, old.memory, old.text)
           /\ text = old.text

Newlines == {10, 11, 12, 13, 133, 8232, 8233}

\* the bytes, counted from the offset of t, of the code points that decode and
\* are neither a newline nor the scalar 0, up to the first that is not so
RECURSIVE LineRun(_, _, _)
LineRun(h, m, t) ==
    LET got == IUTF_get(h, m, t)
    IN  IF got.ok /\ got.unicode \notin Newlines /\ got.unicode # 0
        THEN got.bytes + LineRun(h, m, Advance(t, got.bytes))
        ELSE 0

\* what stands behind the line that starts at the offset of t: "newline", "zero",
\* "end" (the length of the buffer) or "failure" (a code point that does not decode)
AfterLine(h, m, t) ==
    LET behind == Advance(t, LineRun(h, m, t))
        got == IUTF_get(h, m, behind)
    IN  IF behind.offset = behind.length THEN "end"
        ELSE IF ~got.ok THEN "failure"
        ELSE IF got.unicode = 0 THEN "zero"
        ELSE "newline"

\* C18: readLine, called again and again on a buffer of lines separated by
\* newlines, returns each line in turn: called where a line starts that is ended
\* by a newline, or where a last, non-empty line starts that is ended by the end
\* of the buffer, it returns true and that line.
C18_EveryLine ==
    (/\ func = "readLine" /\ CalledInBounds /\ old.text.buffer # 0
     /\ \/ AfterLine(handler, old.memory, old.text) = "newline"
        \/ /\ AfterLine(handler, old.memory, old.text) = "end"
           /\ LineRun(handler, old.memory, old.text) >= 1)
        => /\ ok
           /\ line = utf_text(Place, LineRun(handler, old.memory, old.text), 0)
           /\ Advanced >= line.length

\* C19: getNLF, as readNLF calls it with offset <= length, succeeds exactly when
\* the decode at the offset does; it reports LF, CR, VT, FF, NEL, LINE SEPARATOR
\* and PARAGRAPH SEPARATOR as the scalar 0x0A and every other scalar unchanged;
\* its bytes is the sum of both widths for CR then LF and for LF then CR, and the
\* width of the first code point alone otherwise: for LF+LF, CR+CR, and a CR or
\* LF followed by another scalar, a failed decode or the end of the buffer.
C19_NewlineNormalised ==
    (func = "readNLF" /\ CalledInBounds)
        => LET first == IUTF_get(handler, old.memory, old.text)
               second == IUTF_get(handler, old.memory, Advance(old.text, first.bytes))
               pair == /\ second.ok
                       /\ \/ first.unicode = 13 /\ second.unicode = 10
                          \/ first.unicode = 10 /\ second.unicode = 13
           IN  /\ ok = first.ok
               /\ ok => /\ unicode = IF first.unicode \in Newlines THEN 10 ELSE first.unicode
                        /\ bytes = IF pair THEN first.bytes + second.bytes ELSE first.bytes
               /\ Advanced = bytes

\* readNLF took a UTF-16BE LF then CR for one boundary of 4 bytes
C19_Witness ==
    /\ func = "readNLF" /\ handler = "CUTF16be" /\ CalledInBounds /\ Remaining >= 4
    /\ SubSeq(old.memory, Place, Place + 3) = <<0, 10, 0, 13>>
    /\ ok /\ unicode = 10 /\ bytes = 4

\* C20: the line of a successful getLine, as readLine calls it with
\* offset <= length, is a view of the source: line.buffer is the address
\* text.buffer + text.offset, line.offset is 0, line.length is the number of bytes
\* before the first boundary (a newline or the scalar 0), every code point in the
\* line decodes and is no boundary, bytes is line.length plus the width of the
\* boundary (of both code points for a CR/LF pair), and no byte is copied or changed.
C20_LineIsView ==
    (func = "readLine" /\ CalledInBounds /\ ok)
        => LET run == LineRun(handler, old.memory, old.text)
               first == IUTF_get(handler, old.memory, Advance(old.text, run))
               second == IUTF_get(handler, old.memory, Advance(old.text, run + first.bytes))
               pair == /\ second.ok
                       /\ \/ first.unicode = 13 /\ second.unicode = 10
                          \/ first.unicode = 10 /\ second.unicode = 13
           IN  /\ line.buffer = old.text.buffer + old.text.offset
               /\ line.offset = 0
               /\ line.length = run
               /\ AfterLine(handler, old.memory, old.text) \in {"newline", "zero"}
               /\ bytes = line.length + first.bytes + (IF pair THEN second.bytes ELSE 0)
               /\ memory = old.memory

\* the second readLine over the UTF-16LE text "a\nb\n" returned the view of "b"
C20_Witness ==
    /\ func = "readLine" /\ handler = "CUTF16le" /\ ok
    /\ old.text = utf_text(1, 8, 4)
    /\ SubSeq(old.memory, 1, 8) = <<97, 0, 10, 0, 98, 0, 10, 0>>
    /\ line = utf_text(5, 2, 0) /\ bytes = 4

\* the first n bytes of the buffer identifyUTF was called on
Starts(bom) ==
    /\ buffer # nullptr
    /\ size >= Len(bom)
    /\ SubSeq(buffer, 1, Len(bom)) = bom

\* one of the five byte-order marks starts the buffer
BOMMatched ==
    \/ Starts(<<255, 254, 0, 0>>)
    \/ Starts(<<0, 0, 254, 255>>)
    \/ Starts(<<239, 187, 191>>)
    \/ Starts(<<255, 254>>)
    \/ Starts(<<254, 255>>)

\* C21: identifyUTF on a non-null buffer that starts with a byte-order mark within
\* size: FF FE 00 00 is UTF32le with bytes 4, 00 00 FE FF is UTF32be with bytes 4,
\* EF BB BF is UTF8 with bytes 3, FF FE not followed by 00 00 within size is UTF16le
\* with bytes 2, FE FF is UTF16be with bytes 2; the 4-byte marks come first, so
\* FF FE 00 00 with size >= 4 is never UTF16le.  bytes is 0, 2, 3 or 4, is never
\* above size, and is non-zero exactly when a mark matched.
C21_BOM ==
    func = "identifyUTF" =>
        /\ Starts(<<255, 254, 0, 0>>) => type = "UTF32le" /\ bytes = 4
        /\ Starts(<<0, 0, 254, 255>>) => type = "UTF32be" /\ bytes = 4
        /\ Starts(<<239, 187, 191>>) => type = "UTF8" /\ bytes = 3
        /\ Starts(<<255, 254>>) /\ ~Starts(<<255, 254, 0, 0>>)
              => type = "UTF16le" /\ bytes = 2
        /\ Starts(<<254, 255>>) => type = "UTF16be" /\ bytes = 2
        /\ bytes \in {0, 2, 3, 4}
        /\ bytes <= size
        /\ bytes # 0 <=> BOMMatched

\* FF FE 00 00 with size >= 4 was identified as UTF32le with bytes 4
C21_Witness ==
    /\ func = "identifyUTF"
    /\ Starts(<<255, 254, 0, 0>>)
    /\ type = "UTF32le"
    /\ bytes = 4

\* the n-byte code unit at index i of the buffer is in 0x01 .. 0x7F: its low byte
\* (first when little-endian, last when big-endian) is, and its other bytes are 0
AsciiUnit(i, n, little) ==
    LET unit == SubSeq(buffer, i + 1, i + n)
        low == IF little THEN 1 ELSE n
    IN  /\ unit[low] >= 1 /\ unit[low] <= 127
        /\ \A k \in 1 .. n : k # low => unit[k] = 0

\* the first match of the heuristic, in the order UTF-32 LE, BE (size >= 8),
\* UTF-16 LE, BE (size >= 4), UTF-8 (size >= 2)
Guess ==
    IF buffer = nullptr \/ size < 2 THEN "OTHER"
    ELSE IF size >= 8 /\ AsciiUnit(0, 4, TRUE) /\ AsciiUnit(4, 4, TRUE) THEN "UTF32le"
    ELSE IF size >= 8 /\ AsciiUnit(0, 4, FALSE) /\ AsciiUnit(4, 4, FALSE) THEN "UTF32be"
    ELSE IF size >= 4 /\ AsciiUnit(0, 2, TRUE) /\ AsciiUnit(2, 2, TRUE) THEN "UTF16le"
    ELSE IF size >= 4 /\ AsciiUnit(0, 2, FALSE) /\ AsciiUnit(2, 2, FALSE) THEN "UTF16be"
    ELSE IF AsciiUnit(0, 1, TRUE) /\ AsciiUnit(1, 1, TRUE) THEN "UTF8"
    ELSE "OTHER"

\* C22: when no byte-order mark matches, identifyUTF returns the first match of two
\* leading code units each in 0x01 .. 0x7F at UTF-32 granularity (size >= 8, little-
\* endian before big-endian), at UTF-16 granularity (size >= 4, little-endian before
\* big-endian), then at UTF-8 granularity (size >= 2), with bytes = 0; OTHER with
\* bytes = 0 if nothing matches, the buffer is null or size < 2.
C22_Heuristic ==
    func = "identifyUTF" /\ ~BOMMatched => type = Guess /\ bytes = 0

\* the same, for the builds whose plain char is a signed type
C22_HeuristicOfSignedChar ==
    func = "identifyUTF" /\ flag /\ ~BOMMatched => type = Guess /\ bytes = 0

\* two ASCII letters of UTF-16LE were identified without a byte-order mark
C22_SignedCharWitness ==
    /\ func = "identifyUTF"
    /\ flag
    /\ size = 4
    /\ buffer # nullptr
    /\ SubSeq(buffer, 1, 4) = <<65, 0, 65, 0>>
    /\ type = "UTF16le"
    /\ bytes = 0

\* the encoder that matches a decoder, applied to capacity n of mem
Reencode(name, f, mem, n, u) ==
    CASE name = "getUTF8" -> setUTF8(mem, n, u, f)
      [] name = "getUTF16le" -> setUTF16le(mem, n, u)
      [] name = "getUTF16be" -> setUTF16be(mem, n, u)
      [] name = "getUTF32le" -> setUTF32le(mem, n, u)
      [] name = "getUTF32be" -> setUTF32be(mem, n, u)

\* C26: whenever a strict decode (UTF-8 with the Java flag off, UTF-16LE/BE,
\* UTF-32LE/BE) succeeds with scalar u and bytes n, the matching encoder given u and
\* capacity 4 succeeds and writes exactly the n bytes that were decoded.
C26_Canonical ==
    func \in UTFGet /\ ~flag /\ ok =>
        LET again == Reencode(func, FALSE, <<0, 0, 0, 0>>, 4, unicode)
        IN  /\ again.ok
            /\ again.bytes = bytes
            /\ SubSeq(again.buffer, 1, bytes) = SubSeq(buffer, 1, bytes)

\* a strict getUTF8 decoded three bytes, and a getUTF16be a surrogate pair
C26_Witness ==
    /\ ok
    /\ ~flag
    /\ \/ func = "getUTF8" /\ bytes = 3
       \/ func = "getUTF16be" /\ bytes = 4

\* the bytes of each n-byte code unit of the first four bytes of mem reversed
Mirror(mem, n) ==
    [i \in 1 .. Len(mem) |->
        IF i > 4 THEN mem[i] ELSE mem[((i - 1) \div n) * n + n - ((i - 1) % n)]]

\* C27: getUTF16be on b0 b1 b2 b3 returns the same (ok, scalar, bytes) as getUTF16le
\* on b1 b0 b3 b2, and getUTF32be the same as getUTF32le on b3 b2 b1 b0, for every
\* size; setUTF16be and setUTF32be return the same (ok, bytes) as the little-endian
\* encoder and write its output with the bytes of each code unit reversed.
C27_Mirrored ==
    /\ func \in {"getUTF16be", "getUTF32be"} /\ buffer # nullptr =>
          LET le == IF func = "getUTF16be" THEN getUTF16le(Mirror(buffer, 2), size)
                    ELSE getUTF32le(Mirror(buffer, 4), size)
          IN  <<ok, unicode, bytes>> = <<le.ok, le.unicode, le.bytes>>
    /\ func \in {"setUTF16be", "setUTF32be"} /\ buffer # nullptr =>
          LET le == IF func = "setUTF16be" THEN setUTF16le(old.buffer, size, unicode)
                    ELSE setUTF32le(old.buffer, size, unicode)
              n == IF func = "setUTF16be" THEN 2 ELSE 4
          IN  /\ <<ok, bytes>> = <<le.ok, le.bytes>>
              /\ writes = le.writes
              /\ buffer = Mirror(le.buffer, n)

\* getUTF16be decoded a surrogate pair, and setUTF16be wrote one
C27_Witness ==
    /\ ok
    /\ bytes = 4
    /\ func \in {"getUTF16be", "setUTF16be"}

\* C28: for every byte b on which getCP1252 succeeds with scalar u, setCP1252 with
\* capacity >= 1 and u succeeds and writes b; and for every scalar u, lenCP1252(u) = 1
\* exactly when setCP1252 with capacity >= 1 succeeds on u, scalars above 0xFF that
\* the table maps from the bytes 0x80 .. 0x9F included.
C28_CP1252Agree ==
    /\ func = "getCP1252" /\ ok =>
          LET back == setCP1252(<<0>>, 1, unicode)
          IN  back.ok /\ back.buffer = <<At(buffer, 0)>>
    /\ func = "setCP1252" /\ old.buffer # nullptr /\ size >= 1 =>
          (lenCP1252(unicode) = 1 <=> ok)

\* C30: a successful setUTF8 with the Java flag on, and so a set of the Java-style
\* handler, writes no byte 0x00, for any scalar including 0; the scalar 0 is written
\* as the two bytes C0 80 and is refused with a capacity below 2.
C30_NoZeroByte ==
    func = "setUTF8" /\ flag =>
        LET java == set("CJUTF8", old.buffer, size, unicode)
        IN  /\ <<java.ok, java.bytes, java.buffer>> = <<ok, bytes, buffer>>
            /\ ok => /\ \A i \in 0 .. bytes - 1 : i \in writes /\ At(buffer, i) # 0
                     /\ \A i \in writes : i < bytes
            /\ ok /\ unicode = 0 => bytes = 2 /\ SubSeq(buffer, 1, 2) = <<192, 128>>
            /\ unicode = 0 /\ size < 2 => ~ok /\ buffer = old.buffer

\* the scalar 0 was written as C0 80 into memory that held zero bytes
C30_Witness ==
    /\ func = "setUTF8"
    /\ flag
    /\ ok
    /\ unicode = 0
    /\ old.buffer # nullptr
    /\ old.buffer[1] = 0
    /\ SubSeq(buffer, 1, 2) = <<192, 128>>

\* the size a loop was given: the size argument, or what the cursor has left
Given ==
    IF task = "sized" THEN size
    ELSE IF text.length >= text.offset THEN text.length - text.offset
    ELSE 0

\* C24: a loop that takes an explicit size (strlenUTF8, strlenUTF16le/be and every
\* strsize...from... with (buffer, size), getLine and validate on a cursor) enters
\* its body at most size times, whatever the bytes and also for odd sizes: every
\* entry but an exiting one moves the index on by at least 1, and a loop that is
\* not left takes its next step.
C24_Terminates ==
    task \in {"sized", "scan"} =>
        /\ loop.iterations <= Given
        /\ loop.index >= loop.iterations - (IF loop.done THEN 1 ELSE 0)
        /\ task = "sized" => loop.limit = size - loop.index
        /\ loop.done \/ Running

\* strsizeUTF8fromUTF16le with the odd size 3 over a lone high surrogate was left
\* by the break at the last byte, after two entries
C24_Witness ==
    /\ task = "sized"
    /\ func = "strsizeUTF8fromUTF16le"
    /\ buffer # nullptr
    /\ size = 3
    /\ SubSeq(buffer, 1, 2) = <<61, 216>>
    /\ loop.done
    /\ loop.iterations = 2
    /\ loop.index = 2

\* the number of getUTF8 decodes, Java style allowed, that consume the bytes; -1 when
\* one of them fails
RECURSIVE Decodes(_)
Decodes(b) ==
    IF b = <<>> THEN 0
    ELSE LET got == getUTF8(b, Len(b), TRUE)
             rest == Decodes(SubSeq(b, got.bytes + 1, Len(b)))
         IN  IF got.ok /\ rest >= 0 THEN rest + 1 ELSE -1

\* the bytes before the first 0x00
BeforeZero(b) ==
    LET zero == CHOOSE i \in 1 .. Len(b) : b[i] = 0 /\ \A j \in 1 .. i - 1 : b[j] # 0
    IN  SubSeq(b, 1, zero - 1)

\* the bytes strlenUTF8 was to count
Counted == IF task = "sized" THEN SubSeq(buffer, 1, size) ELSE BeforeZero(buffer)

\* C25: for bytes that are a concatenation of well-formed UTF-8 sequences, the
\* Java-style C0 80 allowed, strlenUTF8(buffer, size) returns the number of getUTF8
\* decodes that consume them, and strlenUTF8(buffer) returns that number for the
\* bytes before the first 0x00.
C25_CountsCodePoints ==
    func = "strlenUTF8" /\ buffer # nullptr /\ loop.done /\ Decodes(Counted) >= 0 =>
        loop.count = Decodes(Counted)

\* strlenUTF8(buffer) counted 2 for C0 80 followed by a three-byte sequence
C25_Witness ==
    /\ task = "terminated"
    /\ func = "strlenUTF8"
    /\ buffer # nullptr
    /\ loop.done
    /\ BeforeZero(buffer) = <<192, 128, 226, 130, 172>>
    /\ loop.count = 2

\* the width of a code unit of what a sizing function reads
UnitRead ==
    CASE func \in {"strsizeUTF8fromUTF16le", "strsizeUTF8fromUTF16be"} -> 2
      [] func \in {"strsizeUTF8fromUTF32le", "strsizeUTF8fromUTF32be"} -> 4
      [] OTHER -> 1

\* the index of the first terminator: the first aligned code unit that is 0
Terminator ==
    LET zero(i) == i % UnitRead = 0 /\ \A k \in 0 .. UnitRead - 1 : At(buffer, i + k) = 0
    IN  CHOOSE i \in 0 .. Len(buffer) - UnitRead :
            zero(i) /\ \A j \in 0 .. i - 1 : ~zero(j)

\* C29: on a buffer that ends with its terminator, strsizeUTF16fromUTF8(buffer, java),
\* strsizeUTF8fromUTF16le/be(buffer) and strsizeUTF8fromUTF32le/be(buffer) terminate,
\* read no byte after the last byte of the first terminator and never step over it,
\* also when what precedes it is malformed, cut short or a lone high surrogate.
C29_StopsAtTerminator ==
    /\ task = "terminated"
    /\ func \in {"strsizeUTF16fromUTF8", "strsizeUTF8fromUTF16le", "strsizeUTF8fromUTF16be",
                 "strsizeUTF8fromUTF32le", "strsizeUTF8fromUTF32be"}
    /\ buffer # nullptr
    => /\ \A i \in loop.reads : i < Terminator + UnitRead
       /\ loop.unicode # 0 => loop.index <= Terminator
       /\ loop.unicode = 0 => loop.index = Terminator + UnitRead
       /\ loop.iterations <= Terminator + 1
       /\ loop.done => loop.unicode = 0
       /\ loop.done \/ Running

\* strsizeUTF16fromUTF8 met a three-byte sequence cut short by the terminator, read
\* the terminator while decoding it, and was left at the terminator
C29_Witness ==
    /\ task = "terminated"
    /\ func = "strsizeUTF16fromUTF8"
    /\ buffer # nullptr
    /\ SubSeq(buffer, 1, 3) = <<226, 130, 0>>
    /\ loop.done
    /\ loop.reads = {0, 1, 2}
    /\ loop.index = 3
    /\ loop.iterations = 3

\* what a thread that runs alone sees when it makes the calls, one after the other,
\* from the cursor c
RECURSIVE Alone(_, _, _, _)
Alone(h, m, c, calls) ==
    IF calls = <<>> THEN <<>>
    ELSE LET op == Head(calls)
             got == called(op, h, m, c)
             after == IF op \in Readers THEN Advance(c, got.bytes) ELSE c
         IN  <<[got |-> got, text |-> after]>> \o Alone(h, m, after, Tail(calls))

\* the calls of thread t that have returned
Returned(t) ==
    IF Len(threads[t].pending) = 1
    THEN SubSeq(threads[t].calls, 1, Len(threads[t].calls) - 1)
    ELSE threads[t].calls

====
